---- MODULE Spec2Model ----
(***************************************************************************)
(* Verification model of the Risk game orchestrator                        *)
(* (src/agents/game_orchestrator.py) together with the pieces of the rule  *)
(* engine (src/agents/risk_rules.py) and of the service client             *)
(* (src/agents/risk_api.py) that it calls.                                 *)
(*                                                                         *)
(* The remote game service and the decision agent are external            *)
(* collaborators.  The service is modelled by the fields of the snapshot   *)
(* the orchestrator reads and by the outcomes its commands can have        *)
(* (accepted with the documented effect, or answered with a non-200        *)
(* status and no effect).  The agent is modelled by the tool calls it can  *)
(* make during one take_turn and by the textual markers that the           *)
(* orchestrator looks for in the returned string.                          *)
(*                                                                         *)
(* In the phase handlers the rule engine is taken to accept the player     *)
(* object it is handed, and legality is modelled by the emptiness of the   *)
(* legal-action set on the handler's snapshot.  What the rule functions    *)
(* return (or raise) for a dict and for an object that cannot be           *)
(* subscripted is examined on its own under RuleSpec.                      *)
(***************************************************************************)
EXTENDS Integers, Sequences, FiniteSets, TLC

\* ------------------------------------------------------------------ bounds
MaxPool == 2          \* largest reinforcement pool handed out at a turn start
TradeBonus == 1       \* armies granted by the service for one card trade
MaxTurns == 2         \* active-player changes after which the run is cut off
MaxToolCalls == 2     \* tool calls the agent may make in one take_turn
InvocationCap == 12   \* saturation value of the invocation counter
MaxArmies == 5        \* largest army count on one territory in an attack call
MaxFortifyArmies == 3 \* largest army count on one territory in a fortify call
MaxKinds == 4         \* longest list of kinds given to the card validator
MaxHand == 5          \* largest hand given to the card-trade rule
MaxHints == 2         \* longest possible_actions list given to the move rule
max_iterations == 2   \* WorkflowAgentConfig.max_iterations of the loop agent
MaxPlayerId == 3      \* largest current_player the loop agent is told of
MaxHistory == 2       \* turns after which the loop agent's run is cut off
MaxRetriesArg == 5    \* largest max_retries passed to the advance helpers

\* ------------------------------------------------------- program constants
ReinforceMaxRetries == 10   \* max_retries in _handle_reinforce_phase
MoveMaxRetries == 5         \* max_retries in _handle_move_armies_phase
RepeatThreshold == 10       \* phase_repeat_count[phase_key] > 10
NumAgentUrls == 2           \* len(player_agent_urls) of the default config
DefaultMaxRetries == 5      \* max_retries=5 of the advance-until helpers

Players == {"P1", "P2"}
Phases == {"reinforce", "attack", "fortify", "movearmies"}

\* Markers the orchestrator searches for in the agent's answer
\* (result.lower() substrings).  "error" stands for any of
\* error / invalid / must / card_indices.
Markers == {"reinforced", "traded", "error", "attacked", "fortified", "fortify_text"}

VARIABLES
    svc,                \* authoritative state held by the remote service
    agents,             \* self.agents: names of the players that have an agent
    noop_only,          \* the decision agent of this run always answers NoOp
    pc,                 \* position of the orchestrator's single thread
    game_state,         \* start_game: snapshot fetched at the top of the loop
    turn_counter,       \* start_game: turn_counter
    phase_repeat_count, \* start_game: phase_repeat_count
    agent,              \* handler argument: name of current_agent
    handler_state,      \* handler local game_state
    retry_count,        \* handler local retry_count
    current_armies,     \* _handle_reinforce_phase local current_armies
    result,             \* markers found in the string returned by take_turn
    calls,              \* tool calls made so far in the running take_turn
    ended_by,           \* why start_game left its loop
    game_log,           \* self.game_log
    rule_in,            \* arguments of a call of the rule engine
    rule_out,           \* what that call returned or raised
    iteration_count,    \* RiskLoopAgent.iteration_count
    turn_history,       \* RiskLoopAgent.turn_history
    game_summary,       \* RiskLoopAgent.game_summary
    frames,             \* the calls in progress on the one RiskLoopAgent
    helper,             \* the running call of an advance-until helper
    \* ---- history variables (observations only, never read by the code)
    invocations,        \* take_turn calls of a NoOp agent in the running handler
    advances,           \* advance_phase commands in the running loop iteration
    changed,            \* the service state changed during the last take_turn
    stale,              \* handler_state predates the last take_turn
    changes,            \* active-player changes at the service since start
    acted,              \* some tool call of an agent has been applied
    consecutive         \* the counter of the pair observed last holds only
                        \* observations made on consecutive loop iterations

vars == <<svc, agents, noop_only, pc, game_state, turn_counter,
          phase_repeat_count, agent, handler_state, retry_count,
          current_armies, result, calls, ended_by, game_log, rule_in,
          rule_out, invocations, advances, changed, stale, changes, acted,
          consecutive, iteration_count, turn_history, game_summary, frames,
          helper>>

\* ------------------------------------------------------------ rule engine
\* the validator accepting any three cards that include a Joker
is_valid_card_combination_AnyJokers(cards) ==
    LET count(k) == Cardinality({i \in DOMAIN cards : cards[i] = k})
    IN  IF Len(cards) # 3 THEN FALSE
        ELSE IF \E k \in {"Infantry", "Cavalry", "Artillery"} : count(k) = 3 THEN TRUE
        ELSE IF \A k \in {"Infantry", "Cavalry", "Artillery"} : count(k) = 1 THEN TRUE
        ELSE count("Joker") > 0

\* the validator looking at the positions of the cards
is_valid_card_combination_Positional(cards) ==
    IF Len(cards) # 3 THEN FALSE
    ELSE \/ cards[1] = cards[2] /\ cards[2] = cards[3] /\ cards[1] # "Joker"
         \/ cards = <<"Infantry", "Cavalry", "Artillery">>
         \/ cards[3] = "Joker" /\ cards[1] # "Joker"

\* risk_rules._is_valid_card_combination
is_valid_card_combination(cards) ==
    LET count(k) == Cardinality({i \in DOMAIN cards : cards[i] = k})
        infantry_count == count("Infantry")
        cavalry_count == count("Cavalry")
        artillery_count == count("Artillery")
        joker_count == count("Joker")
    IN  IF Len(cards) # 3 THEN FALSE
        ELSE IF infantry_count = 3 \/ cavalry_count = 3 \/ artillery_count = 3 THEN TRUE
        ELSE IF infantry_count = 1 /\ cavalry_count = 1 /\ artillery_count = 1 THEN TRUE
        ELSE IF joker_count > 0 /\ joker_count < 3
                /\ infantry_count + cavalry_count + artillery_count + joker_count = 3 THEN TRUE
        ELSE FALSE

\* itertools.combinations(range(n), 3) in lexicographic order
RECURSIVE CombosFrom(_, _, _, _)
CombosFrom(n, i, j, k) ==
    IF i > n - 3 THEN <<>>
    ELSE IF j > n - 2 THEN CombosFrom(n, i + 1, i + 2, i + 3)
    ELSE IF k > n - 1 THEN CombosFrom(n, i, j + 1, j + 2)
    ELSE <<(<<i, j, k>>)>> \o CombosFrom(n, i, j, k + 1)

combinations3(n) == CombosFrom(n, 0, 1, 2)

RECURSIVE FilterValid(_, _)
FilterValid(cards, combos) ==
    IF combos = <<>> THEN <<>>
    ELSE LET c == Head(combos)
             card_kinds == <<cards[c[1] + 1], cards[c[2] + 1], cards[c[3] + 1]>>
         IN  (IF is_valid_card_combination(card_kinds) THEN <<c>> ELSE <<>>)
             \o FilterValid(cards, Tail(combos))

\* risk_rules.get_valid_card_trade_actions: the list of card_indices triples
get_valid_card_trade_actions(phase, cards) ==
    IF phase # "reinforce" THEN <<>>
    ELSE IF Len(cards) < 3 THEN <<>>
    ELSE FilterValid(cards, combinations3(Len(cards)))

\* risk_rules.get_valid_reinforce_actions with a risk_client: one action per
\* owned territory when the freshly read pool is positive (emptiness only)
valid_reinforce_nonempty(gs, name, pool) ==
    gs.phase = "reinforce" /\ pool # 0 /\ name \in gs.owners

\* risk_rules.get_valid_attack_actions (emptiness only)
valid_attacks_nonempty(gs) == gs.phase = "attack" /\ gs.can_attack

\* risk_rules.get_valid_fortify_actions (emptiness only)
valid_fortifies_nonempty(gs) == gs.phase = "fortify" /\ gs.can_fortify

\* risk_rules.get_valid_move_armies_actions (emptiness only)
valid_moves_nonempty(gs) == gs.phase = "movearmies" /\ gs.pending_move

\* ------------------------------------------- rule engine, called directly
\* A call of a rule has three arguments.  game_state: phase, the
\* reinforcement_armies attribute if the object has one (the GameState
\* dataclass has none, the mocks of test_risk_rules.py have), territories
\* (name -> adjacent_territories) and players (a list of dicts).  player:
\* a dict as annotated, or an object such as the Player dataclass that
\* _parse_game_state builds, which cannot be subscripted.  risk_client:
\* None, or a client whose get_reinforcement_armies() gives pool.
Terr == {"A", "B", "C"}

\* the call returns a value: a list of actions, the visited set of
\* _find_connected_territories, the verdict of _is_valid_card_combination
Returns(actions) == [raised |-> FALSE, actions |-> actions]

\* TypeError: 'Player' object is not subscriptable
TypeError == [raised |-> TRUE, actions |-> <<>>]

\* player['territories'], player['armies'], player['name'], ...
Subscriptable(player) == player.repr = "dict"

\* the reinforce rule without its phase gate
get_valid_reinforce_actions_AnyPhase(gs, player, risk_client) ==
    LET reinforcement_armies ==
            IF risk_client.present THEN risk_client.pool
            ELSE IF gs.has_attr THEN gs.reinforcement_armies
            ELSE 0
    IN  IF reinforcement_armies = 0 THEN Returns(<<>>)
        ELSE IF ~Subscriptable(player) THEN TypeError
        ELSE Returns([i \in 1..Len(player.territories) |->
                        [territory |-> player.territories[i],
                         max_armies |-> reinforcement_armies]])

\* the reinforce rule without its test for an empty pool
get_valid_reinforce_actions_EmptyPoolOffered(gs, player, risk_client) ==
    IF gs.phase # "reinforce" THEN Returns(<<>>)
    ELSE LET reinforcement_armies ==
                 IF risk_client.present THEN risk_client.pool
                 ELSE IF gs.has_attr THEN gs.reinforcement_armies
                 ELSE 0
         IN  IF ~Subscriptable(player) THEN TypeError
             ELSE Returns([i \in 1..Len(player.territories) |->
                             [territory |-> player.territories[i],
                              max_armies |-> reinforcement_armies]])

\* risk_rules.get_valid_reinforce_actions
get_valid_reinforce_actions(gs, player, risk_client) ==
    IF gs.phase # "reinforce" THEN Returns(<<>>)
    ELSE LET reinforcement_armies ==
                 IF risk_client.present THEN risk_client.pool
                 ELSE IF gs.has_attr THEN gs.reinforcement_armies
                 ELSE 0
         IN  IF reinforcement_armies = 0 THEN Returns(<<>>)
             ELSE IF ~Subscriptable(player) THEN TypeError
             ELSE Returns([i \in 1..Len(player.territories) |->
                             [territory |-> player.territories[i],
                              max_armies |-> reinforcement_armies]])

Range(seq) == {seq[i] : i \in DOMAIN seq}

\* Territory names in alphabetical order
Rank == [A |-> 1, B |-> 2, C |-> 3, D |-> 4]

\* every adjacent territory taken to be held by the second player
adjacent_owner_AlwaysEnemy(players, adjacent_name) == "P2"

\* lines 79-84: the name of the first player of the list that holds the
\* territory, "none" if nobody does
RECURSIVE adjacent_owner(_, _)
adjacent_owner(players, adjacent_name) ==
    IF players = <<>> THEN "none"
    ELSE IF adjacent_name \in Range(Head(players).territories)
         THEN Head(players).name
         ELSE adjacent_owner(Tail(players), adjacent_name)

\* lines 77-92: the inner loop over from_territory.adjacent_territories
RECURSIVE AttacksOver(_, _, _, _, _)
AttacksOver(gs, player, from_territory_name, max_dice, adjacent) ==
    IF adjacent = <<>> THEN <<>>
    ELSE LET owner == adjacent_owner(gs.players, Head(adjacent))
             rest == AttacksOver(gs, player, from_territory_name,
                                 max_dice, Tail(adjacent))
         IN  IF owner = "none" \/ owner = player.name THEN rest
             ELSE <<[from |-> from_territory_name, to |-> Head(adjacent),
                     max_dice |-> max_dice]>> \o rest

\* lines 61-92: the outer loop over player['territories']
RECURSIVE AttacksFrom(_, _, _)
AttacksFrom(gs, player, names) ==
    IF names = <<>> THEN <<>>
    ELSE LET from_territory_name == Head(names)
             rest == AttacksFrom(gs, player, Tail(names))
             armies_in_territory ==
                 IF from_territory_name \in DOMAIN player.armies
                 THEN player.armies[from_territory_name] ELSE 0
             max_dice == IF armies_in_territory - 1 < 3
                         THEN armies_in_territory - 1 ELSE 3
         IN  IF from_territory_name \notin DOMAIN gs.territories THEN rest
             ELSE IF armies_in_territory <= 1 THEN rest
             ELSE IF max_dice <= 0 THEN rest
             ELSE AttacksOver(gs, player, from_territory_name, max_dice,
                              gs.territories[from_territory_name]) \o rest

\* risk_rules.get_valid_attack_actions
get_valid_attack_actions(gs, player) ==
    IF gs.phase # "attack" THEN Returns(<<>>)
    ELSE IF ~Subscriptable(player) THEN TypeError
    ELSE Returns(AttacksFrom(gs, player, player.territories))

\* the search stopping at the neighbours of its start
Visit_OneStep(gs, player_territories_set, queue, visited) ==
    IF queue = <<>> THEN visited
    ELSE LET start == Head(queue)
         IN  {start} \cup
             (IF start \in DOMAIN gs.territories
              THEN Range(gs.territories[start]) \cap player_territories_set
              ELSE {})

\* the search following an edge only towards a later territory
RECURSIVE Visit_Forward(_, _, _, _)
Visit_Forward(gs, player_territories_set, queue, visited) ==
    IF queue = <<>> THEN visited
    ELSE LET current == Head(queue)
             seen == visited \cup {current}
             Fresh(adjacent) == /\ adjacent \notin seen
                                /\ adjacent \in player_territories_set
                                /\ Rank[adjacent] > Rank[current]
         IN  IF current \in visited
             THEN Visit_Forward(gs, player_territories_set, Tail(queue), visited)
             ELSE IF current \notin DOMAIN gs.territories
             THEN Visit_Forward(gs, player_territories_set, Tail(queue), seen)
             ELSE Visit_Forward(gs, player_territories_set,
                                Tail(queue) \o SelectSeq(gs.territories[current], Fresh),
                                seen)

\* lines 154-167: the breadth-first loop of _find_connected_territories
RECURSIVE Visit(_, _, _, _)
Visit(gs, player_territories_set, queue, visited) ==
    IF queue = <<>> THEN visited
    ELSE LET current == Head(queue)
             seen == visited \cup {current}
             Fresh(adjacent) == /\ adjacent \notin seen
                                /\ adjacent \in player_territories_set
         IN  IF current \in visited
             THEN Visit(gs, player_territories_set, Tail(queue), visited)
             ELSE IF current \notin DOMAIN gs.territories
             THEN Visit(gs, player_territories_set, Tail(queue), seen)
             ELSE Visit(gs, player_territories_set,
                        Tail(queue) \o SelectSeq(gs.territories[current], Fresh),
                        seen)

\* the loop expanding a territory each time it is popped
RECURSIVE SearchTrace_NoSeenCheck(_, _, _, _)
SearchTrace_NoSeenCheck(gs, player_territories_set, queue, visited) ==
    IF queue = <<>> THEN <<>>
    ELSE LET current == Head(queue)
             seen == visited \cup {current}
             Fresh(adjacent) == /\ adjacent \notin seen
                                /\ adjacent \in player_territories_set
         IN  IF current \notin DOMAIN gs.territories
             THEN <<[current |-> current, expanded |-> TRUE]>>
                  \o SearchTrace_NoSeenCheck(gs, player_territories_set,
                                             Tail(queue), seen)
             ELSE <<[current |-> current, expanded |-> TRUE]>>
                  \o SearchTrace_NoSeenCheck(
                         gs, player_territories_set,
                         Tail(queue) \o SelectSeq(gs.territories[current], Fresh),
                         seen)

\* lines 156-166: the iterations of the same loop, one entry per pop of
\* the queue: the territory popped and whether it got past the
\* `if current in visited: continue` test (was added to visited)
RECURSIVE SearchTrace(_, _, _, _)
SearchTrace(gs, player_territories_set, queue, visited) ==
    IF queue = <<>> THEN <<>>
    ELSE LET current == Head(queue)
             seen == visited \cup {current}
             Fresh(adjacent) == /\ adjacent \notin seen
                                /\ adjacent \in player_territories_set
         IN  IF current \in visited
             THEN <<[current |-> current, expanded |-> FALSE]>>
                  \o SearchTrace(gs, player_territories_set, Tail(queue), visited)
             ELSE IF current \notin DOMAIN gs.territories
             THEN <<[current |-> current, expanded |-> TRUE]>>
                  \o SearchTrace(gs, player_territories_set, Tail(queue), seen)
             ELSE <<[current |-> current, expanded |-> TRUE]>>
                  \o SearchTrace(gs, player_territories_set,
                                 Tail(queue) \o SelectSeq(gs.territories[current], Fresh),
                                 seen)

\* risk_rules._find_connected_territories; player_territories_set is
\* [given |-> FALSE] for None
find_connected_territories(gs, player, start_territory, player_territories_set) ==
    IF player_territories_set.given
    THEN Returns(Visit(gs, player_territories_set.set, <<start_territory>>, {}))
    ELSE IF ~Subscriptable(player) THEN TypeError
    ELSE Returns(Visit(gs, Range(player.territories), <<start_territory>>, {}))

\* lines 134-142: one action per connected territory other than the
\* source; order lists the territories as the Python set iterates them
FortifiesOver(from_territory_name, max_armies, connected_territories, order) ==
    LET Target(to_territory_name) ==
            /\ to_territory_name \in connected_territories
            /\ to_territory_name # from_territory_name
        targets == SelectSeq(order, Target)
    IN  [i \in 1..Len(targets) |->
            [from |-> from_territory_name, to |-> targets[i],
             max_armies |-> max_armies]]

\* lines 113-142: the loop over player['territories']
RECURSIVE FortifiesFrom(_, _, _, _)
FortifiesFrom(gs, player, names, order) ==
    IF names = <<>> THEN <<>>
    ELSE LET from_territory_name == Head(names)
             rest == FortifiesFrom(gs, player, Tail(names), order)
             armies_in_territory ==
                 IF from_territory_name \in DOMAIN player.armies
                 THEN player.armies[from_territory_name] ELSE 0
             max_armies == armies_in_territory - 1
             player_territories_set == [given |-> TRUE,
                                        set |-> Range(player.territories)]
         IN  IF from_territory_name \notin DOMAIN gs.territories THEN rest
             ELSE IF armies_in_territory <= 1 THEN rest
             ELSE IF max_armies <= 0 THEN rest
             ELSE FortifiesOver(from_territory_name, max_armies,
                                find_connected_territories(
                                    gs, player, from_territory_name,
                                    player_territories_set).actions,
                                order) \o rest

\* risk_rules.get_valid_fortify_actions
get_valid_fortify_actions(gs, player, order) ==
    IF gs.phase # "fortify" THEN Returns(<<>>)
    ELSE IF ~Subscriptable(player) THEN TypeError
    ELSE Returns(FortifiesFrom(gs, player, player.territories, order))

\* risk_rules.get_valid_card_trade_actions called with a player object:
\* len(player['cards']) comes after the phase test
card_trade_actions(gs, player) ==
    IF gs.phase # "reinforce" THEN Returns(<<>>)
    ELSE IF ~Subscriptable(player) THEN TypeError
    ELSE LET combos == get_valid_card_trade_actions(gs.phase, player.cards)
         IN  Returns([i \in 1..Len(combos) |-> [card_indices |-> combos[i]]])

\* the move-armies rule handing out the service's bounds the wrong way round
get_valid_move_armies_actions_BoundsSwapped(gs, player) ==
    IF gs.phase # "movearmies" THEN Returns(<<>>)
    ELSE IF ~gs.has_possible_actions THEN Returns(<<>>)
    ELSE LET IsMove(action) == action.kind = "MoveArmies"
             moves == SelectSeq(gs.possible_actions, IsMove)
         IN  Returns([i \in 1..Len(moves) |->
                        [from |-> moves[i].from, to |-> moves[i].to,
                         max_armies |-> moves[i].min_armies,
                         min_armies |-> moves[i].max_armies]])

\* risk_rules.get_valid_move_armies_actions; an entry of possible_actions
\* is a dict with the key 'MoveArmies' (kind "MoveArmies", with its four
\* fields) or anything else (kind "EndPhase")
get_valid_move_armies_actions(gs, player) ==
    IF gs.phase # "movearmies" THEN Returns(<<>>)
    ELSE IF ~gs.has_possible_actions THEN Returns(<<>>)
    ELSE LET IsMove(action) == action.kind = "MoveArmies"
             moves == SelectSeq(gs.possible_actions, IsMove)
         IN  Returns([i \in 1..Len(moves) |->
                        [from |-> moves[i].from, to |-> moves[i].to,
                         max_armies |-> moves[i].max_armies,
                         min_armies |-> moves[i].min_armies]])

\* ---- the calls examined
\* All orderings of a set of territories
Perms(S) == {q \in [1..Cardinality(S) -> S] : Range(q) = S}

Sorted(S) ==
    CHOOSE q \in Perms(S) : \A i \in 1..(Len(q) - 1) : Rank[q[i]] < Rank[q[i + 1]]

Reverse(q) == [i \in 1..Len(q) |-> q[Len(q) + 1 - i]]

\* Boards: a line, a triangle, a one-way edge, a self-adjacent territory,
\* and a map that lacks a territory its neighbours name
Adjacencies ==
    { [A |-> <<"B">>, B |-> <<"A", "C">>, C |-> <<"B">>],
      [A |-> <<"B", "C">>, B |-> <<"C", "A">>, C |-> <<"A", "B">>],
      [A |-> <<"B">>, B |-> <<>>, C |-> <<>>],
      [A |-> <<"A", "B">>, B |-> <<"A">>, C |-> <<"C">>],
      [A |-> <<"C", "B">>, B |-> <<"A", "C">>] }

NoRuleInput ==
    [rule |-> "none", phase |-> "reinforce", repr |-> "dict",
     present |-> FALSE, pool |-> 0, has_attr |-> FALSE,
     reinforcement_armies |-> 0, territories |-> <<>>,
     armies |-> [t \in Terr |-> 1], others |-> <<>>,
     adjacent |-> [t \in Terr |-> <<>>],
     start |-> "A", set_given |-> FALSE, cards |-> <<>>,
     has_possible_actions |-> FALSE, possible_actions |-> <<>>]

NoRuleOutput == [fn |-> "none", raised |-> FALSE, actions |-> <<>>]

\* Calls of the reinforce rule: any phase, either kind of player, with or
\* without a client, with or without the attribute, any territory list
ReinforceInputs ==
    {[NoRuleInput EXCEPT !.rule = "reinforce", !.phase = ph, !.repr = r,
                         !.present = c[1], !.pool = c[2],
                         !.has_attr = a[1], !.reinforcement_armies = a[2],
                         !.territories = q]
        : ph \in Phases, r \in {"dict", "object"},
          c \in ({<<FALSE, 0>>} \cup ({TRUE} \X (0..MaxPool))),
          a \in ({<<FALSE, 0>>} \cup ({TRUE} \X (0..MaxPool))),
          q \in UNION {Perms(S) : S \in SUBSET Terr}}

\* Calls of the attack rule: any phase, either kind of player, every
\* consistent ownership (each territory held by P1, by P2 or by nobody),
\* P1's list in any order, any army counts in P1's armies dict (which
\* holds P1's territories), one of the boards
Ownerships == [Terr -> {"P1", "P2", "none"}]

AttackInputs(o) ==
    {[NoRuleInput EXCEPT !.rule = "attack", !.phase = ph, !.repr = r,
                         !.territories = q, !.others = theirs,
                         !.armies = n, !.adjacent = adj]
        : theirs \in {Sorted({t \in Terr : o[t] = "P2"})},
          q \in Perms({t \in Terr : o[t] = "P1"}),
          ph \in Phases, r \in {"dict", "object"},
          n \in [{t \in Terr : o[t] = "P1"} -> 1..MaxArmies],
          adj \in Adjacencies}

\* Boards of four territories: a chain A-B-C beside a lone D, a chain
\* A-B-C-D, a ring, a one-way edge, and a map that lacks D
Terr4 == Terr \cup {"D"}

Adjacencies4 ==
    { [A |-> <<"B">>, B |-> <<"A", "C">>, C |-> <<"B">>, D |-> <<>>],
      [A |-> <<"B">>, B |-> <<"A", "C">>, C |-> <<"B", "D">>, D |-> <<"C">>],
      [A |-> <<"D", "B">>, B |-> <<"C", "A">>, C |-> <<"B", "D">>,
       D |-> <<"A", "C">>],
      [A |-> <<"B">>, B |-> <<"C">>, C |-> <<>>, D |-> <<"D">>],
      [A |-> <<"D", "B">>, B |-> <<"A">>, C |-> <<"D">>] }

\* Calls of the fortify rule: any phase, either kind of player, any set of
\* territories held by P1 and listed in alphabetical order or in the
\* opposite one, any army counts in P1's armies dict, one of the boards
FortifyInputs(S) ==
    {[NoRuleInput EXCEPT !.rule = "fortify", !.phase = ph, !.repr = r,
                         !.territories = q, !.armies = n, !.adjacent = adj]
        : q \in {Sorted(S), Reverse(Sorted(S))}, ph \in Phases,
          r \in {"dict", "object"},
          n \in [S -> 1..MaxFortifyArmies], adj \in Adjacencies4}

\* Calls of the connectivity search: either kind of player, any set of
\* territories held by P1, with or without the set argument, any start
ConnectedInputs(S) ==
    {[NoRuleInput EXCEPT !.rule = "connected", !.repr = r,
                         !.territories = Sorted(S), !.adjacent = adj,
                         !.start = st, !.set_given = g]
        : r \in {"dict", "object"}, adj \in Adjacencies4, st \in Terr4,
          g \in BOOLEAN}

CardKinds == {"Infantry", "Cavalry", "Artillery", "Joker"}

\* All lists of at most n elements of S
SeqsUpTo(S, n) == UNION {[1..k -> S] : k \in 0..n}

\* Calls of the card validator: any list of kinds
ValidatorInputs ==
    {[NoRuleInput EXCEPT !.rule = "validator", !.cards = c]
        : c \in SeqsUpTo(CardKinds, MaxKinds)}

\* Calls of the card-trade rule: any phase, either kind of player, any hand
TradeInputs ==
    {[NoRuleInput EXCEPT !.rule = "trade", !.phase = ph, !.repr = r, !.cards = c]
        : ph \in Phases, r \in {"dict", "object"},
          c \in SeqsUpTo(CardKinds, MaxHand)}

\* Entries of possible_actions as the service reports them
Hints ==
    {[kind |-> "EndPhase"]}
    \cup {[kind |-> "MoveArmies", from |-> ft[1], to |-> ft[2],
           min_armies |-> lo, max_armies |-> hi]
            : ft \in {<<"A", "B">>, <<"B", "A">>}, lo \in 1..2, hi \in 2..3}

\* Calls of the move-armies rule: any phase, either kind of player, a
\* snapshot with or without the possible_actions attribute, any list
MoveInputs ==
    {[NoRuleInput EXCEPT !.rule = "move", !.phase = ph, !.repr = r,
                         !.has_possible_actions = h, !.possible_actions = pa]
        : ph \in Phases, r \in {"dict", "object"}, h \in BOOLEAN,
          pa \in SeqsUpTo(Hints, MaxHints)}

\* The arguments of the call described by rule_in
GameStateArg(in) ==
    [phase |-> in.phase, has_attr |-> in.has_attr,
     reinforcement_armies |-> in.reinforcement_armies,
     territories |-> in.adjacent,
     players |-> << [name |-> "P1", territories |-> in.territories],
                    [name |-> "P2", territories |-> in.others] >>,
     has_possible_actions |-> in.has_possible_actions,
     possible_actions |-> in.possible_actions]

PlayerArg(in) ==
    [repr |-> in.repr, name |-> "P1", territories |-> in.territories,
     armies |-> in.armies, cards |-> in.cards]

SetArg(in) == [given |-> in.set_given, set |-> Range(in.territories)]

ClientArg(in) == [present |-> in.present, pool |-> in.pool]

\* ---------------------------------------------------------------- service
\* Fields of svc: current_player, phase, pool (reinforcement_armies),
\* game_over, players (names in the player map), owners (players that own
\* a territory), cards (hand per player), can_attack / can_fortify (the
\* board gives the active player a legal attack / fortify move; only kept
\* while the service is in that phase), pending_move (possible_actions
\* holds a MoveArmies entry), refuses (phases in which the service answers
\* POST /advance_phase with a non-200 status).

\* RiskAPIClient.get_game_state / _parse_game_state: the snapshot
get_game_state == svc

\* RiskAPIClient.get_reinforcement_armies
get_reinforcement_armies == svc.pool

\* The part of a snapshot that start_game reads after fetching it
LoopView(gs) ==
    [current_player |-> gs.current_player, phase |-> gs.phase,
     game_over |-> gs.game_over]

\* The part of a snapshot that the phase handlers read after fetching it
HandlerView(gs) ==
    [phase |-> gs.phase, players |-> gs.players, owners |-> gs.owners,
     cards |-> gs.cards, can_attack |-> gs.can_attack,
     can_fortify |-> gs.can_fortify, pending_move |-> gs.pending_move]

NextPlayer(p) == IF p = "P1" THEN "P2" ELSE "P1"

\* The service enters phase ph (same player); reinforcement_armies is
\* only kept during Reinforce, and only a player that owns territory can
\* have a legal attack or fortify move
EnterPhase(s, ph) ==
    {[s EXCEPT !.phase = ph, !.pool = 0,
               !.can_attack = (ph = "attack" /\ ca),
               !.can_fortify = (ph = "fortify" /\ cf),
               !.pending_move = FALSE]
        : ca \in {FALSE, s.current_player \in s.owners},
          cf \in {FALSE, s.current_player \in s.owners}}

\* States the service can be in at the start of player p's turn
TurnStarts(s, p) ==
    {[s EXCEPT !.current_player = p, !.phase = "reinforce", !.pool = n,
               !.can_attack = FALSE, !.can_fortify = FALSE,
               !.pending_move = FALSE]
        : n \in 0..MaxPool}

\* Effect of an accepted POST /advance_phase
AdvanceAccepted(s) ==
    CASE s.phase = "reinforce" -> EnterPhase(s, "attack")
      [] s.phase = "attack" -> EnterPhase(s, "fortify")
      [] s.phase = "fortify" -> TurnStarts(s, NextPlayer(s.current_player))
      [] s.phase = "movearmies" -> EnterPhase(s, "attack")

\* RiskAPIClient.advance_phase: accepted, or a non-200 answer and no effect
advance_phase(s) == IF s.phase \in s.refuses THEN {s} ELSE AdvanceAccepted(s)

\* Remove the cards at the 0-based indices idx from a hand
RemoveCards(cards, idx) ==
    LET keep == {i \in 1..Len(cards) : (i - 1) \notin {idx[1], idx[2], idx[3]}}
        F[i \in 0..Len(cards)] ==
            IF i = 0 THEN <<>>
            ELSE IF i \in keep THEN Append(F[i - 1], cards[i]) ELSE F[i - 1]
    IN  F[Len(cards)]

\* Effect of an accepted POST /trade_cards
TradeAccepted(s, p, idx) ==
    IF s.phase = "reinforce" /\ s.current_player = p
       /\ \E i \in 1..Len(get_valid_card_trade_actions(s.phase, s.cards[p])) :
             get_valid_card_trade_actions(s.phase, s.cards[p])[i] = idx
    THEN {[s EXCEPT !.cards[p] = RemoveCards(s.cards[p], idx),
                    !.pool = s.pool + TradeBonus]}
    ELSE {}

\* RiskAPIClient.trade_cards: accepted, or a non-200 answer and no effect
trade_cards(s, p, idx) == TradeAccepted(s, p, idx) \cup {s}

Changes(s, t) == IF s.current_player # t.current_player THEN 1 ELSE 0

\* ------------------------------------------------------------------- Init
\* The callers that may have a call in progress on the loop agent
Callers == {1, 2}

\* A dict key that is not there
Absent == -1

\* dispatched_on: the game state the call had been reported when it
\* dispatched a turn; turn_number: the one of the context it created;
\* status: the status of the dict it returned
IdleFrame == [op |-> "none", pc |-> "idle", dispatched_on |-> "none",
              turn_number |-> 0, status |-> "none"]

\* loop_agent.RiskLoopAgent.__init__
LoopAgentConstructed ==
    /\ iteration_count = 0
    /\ turn_history = <<>>
    /\ game_summary = [turns_completed |-> Absent, player_strategies |-> {}]
    /\ frames = [c \in Callers |-> IdleFrame]

\* No helper call is running
NoHelper == [fn |-> "none", pc |-> "idle", old_phase |-> "reinforce",
             old_player |-> "P1", max_retries |-> 0, attempt |-> 0,
             advances |-> 0, changed_at |-> 0]

NoHand == [p \in Players |-> <<>>]
HandOf(h) == [p \in Players |-> IF p = "P1" THEN h ELSE <<>>]

\* Games the orchestrator is started on: who has an agent, who is in the
\* player map, who owns territory, P1's cards, and where the service
\* refuses to advance.
Scenarios ==
    { [agents |-> Players, players |-> Players, owners |-> Players,
       cards |-> HandOf(h), refuses |-> {}]
        : h \in { <<>>,
                  <<"Infantry", "Cavalry", "Artillery">>,
                  <<"Infantry", "Infantry", "Infantry", "Cavalry", "Joker">> } }
    \cup
    { [agents |-> Players, players |-> Players, owners |-> Players,
       cards |-> NoHand, refuses |-> r]
        : r \in { {"reinforce"}, {"movearmies"}, {"attack", "movearmies"} } }
    \cup
    { [agents |-> {"P1"}, players |-> Players, owners |-> Players,
       cards |-> NoHand, refuses |-> {}],
      [agents |-> Players, players |-> {"P1"}, owners |-> {"P1"},
       cards |-> NoHand, refuses |-> {}],
      [agents |-> Players, players |-> Players, owners |-> {"P1"},
       cards |-> NoHand, refuses |-> {}] }

NoLoopState == [current_player |-> "P1", phase |-> "reinforce", game_over |-> FALSE]

NoHandlerState ==
    [phase |-> "reinforce", players |-> {}, owners |-> {}, cards |-> NoHand,
     can_attack |-> FALSE, can_fortify |-> FALSE, pending_move |-> FALSE]

ZeroCounts == [k \in Players \X Phases |-> 0]

Init ==
    /\ \E sc \in Scenarios, n \in 0..MaxPool :
          /\ svc = [current_player |-> "P1", phase |-> "reinforce", pool |-> n,
                    game_over |-> FALSE, can_attack |-> FALSE,
                    can_fortify |-> FALSE, pending_move |-> FALSE,
                    players |-> sc.players, owners |-> sc.owners,
                    cards |-> sc.cards, refuses |-> sc.refuses]
          /\ agents = sc.agents
    /\ noop_only \in BOOLEAN
    /\ pc = "loop"
    /\ game_state = NoLoopState
    /\ turn_counter = 0
    /\ phase_repeat_count = ZeroCounts
    /\ agent = "P1"
    /\ handler_state = NoHandlerState
    /\ retry_count = 0
    /\ current_armies = 0
    /\ result = {}
    /\ calls = 0
    /\ ended_by = "running"
    /\ game_log = <<>>
    /\ rule_in = NoRuleInput /\ rule_out = NoRuleOutput
    /\ LoopAgentConstructed /\ helper = NoHelper
    /\ acted = FALSE
    /\ invocations = 0
    /\ advances = 0
    /\ changed = FALSE
    /\ stale = FALSE
    /\ changes = 0
    /\ consecutive = TRUE

\* ------------------------------------------------------------ start_game
\* never assigned by any statement that start_game reaches: the agents,
\* the kind of agent, the rule-engine call under study, and self.game_log
\* (only _handle_generic_phase appends to it, and nothing calls it)
constv == <<agents, noop_only, game_log, rule_in, rule_out, iteration_count,
            turn_history, game_summary, frames, helper>>
cfgv == <<constv, acted>>
loopv == <<game_state, turn_counter, phase_repeat_count, consecutive, ended_by>>
handv == <<agent, handler_state, retry_count, current_armies, stale>>
answerv == <<result, calls, changed>>

CardTrades(gs) == get_valid_card_trade_actions(gs.phase, gs.cards[agent])
phase_key(gs) == <<gs.current_player, gs.phase>>

Saturate(n, cap) == IF n < cap THEN n + 1 ELSE cap

\* The pair key is observed: its counter starts afresh from 0, or goes on
\* counting a run of consecutive observations, or has been interrupted by
\* the observation of another pair (game_state still holds the pair of
\* the previous iteration)
Observe(key) ==
    consecutive' = IF phase_repeat_count[key] = 0 THEN TRUE
                   ELSE consecutive /\ key = phase_key(game_state)

\* self.risk_client.advance_phase(), its boolean answer ignored
CommandAdvance ==
    /\ \E s2 \in advance_phase(svc) :
          /\ svc' = s2
          /\ changes' = changes + Changes(svc, s2)
    /\ advances' = Saturate(advances, 3)

HandlerEntry(ph) ==
    CASE ph = "reinforce" -> "r_enter"
      [] ph = "attack" -> "a_enter"
      [] ph = "fortify" -> "f_enter"
      [] ph = "movearmies" -> "m_enter"

\* start_game leaving its loop without looking at the game_over flag
LoopGameOver_FlagIgnored ==
    /\ pc = "loop" /\ changes < MaxTurns
    /\ game_state' = LoopView(get_game_state)
    /\ pc' = "done" /\ ended_by' = "game_over"
    /\ UNCHANGED <<svc, cfgv, turn_counter, phase_repeat_count, consecutive, handv,
                   answerv, invocations, advances, changes>>

\* lines 408-422: _create_game_result (the fields kept by this model)
create_game_result(final_state) ==
    [game_over |-> final_state.game_over, phase |-> final_state.phase,
     players |-> final_state.players, game_log |-> game_log]

\* lines 66-70 and 110-111: the fetched snapshot reports the game as over
LoopGameOver ==
    /\ pc = "loop" /\ changes < MaxTurns
    /\ get_game_state.game_over
    /\ game_state' = LoopView(get_game_state)
    /\ pc' = "done" /\ ended_by' = "game_over"
    /\ UNCHANGED <<svc, cfgv, turn_counter, phase_repeat_count, consecutive, handv,
                   answerv, invocations, advances, changes>>

\* lines 72-75 and 110-111: no agent is registered for the active player
LoopNoAgent ==
    /\ pc = "loop" /\ changes < MaxTurns
    /\ ~get_game_state.game_over
    /\ get_game_state.current_player \notin agents
    /\ game_state' = LoopView(get_game_state)
    /\ pc' = "done" /\ ended_by' = "no_agent"
    /\ UNCHANGED <<svc, cfgv, turn_counter, phase_repeat_count, consecutive, handv,
                   answerv, invocations, advances, changes>>

\* lines 77-86: the stall guard advances the phase and restarts the loop
LoopStallGuard ==
    /\ pc = "loop" /\ changes < MaxTurns
    /\ ~get_game_state.game_over
    /\ get_game_state.current_player \in agents
    /\ phase_repeat_count[phase_key(get_game_state)] + 1 > RepeatThreshold
    /\ game_state' = LoopView(get_game_state)
    /\ agent' = get_game_state.current_player
    /\ Observe(phase_key(get_game_state))
    /\ \E s2 \in advance_phase(svc) :
          /\ svc' = s2
          /\ changes' = changes + Changes(svc, s2)
    /\ advances' = 1
    /\ phase_repeat_count' =
          [phase_repeat_count EXCEPT ![phase_key(get_game_state)] = 0]
    /\ pc' = "loop"
    /\ UNCHANGED <<cfgv, turn_counter, ended_by, handler_state, retry_count,
                   current_armies, stale, answerv, invocations>>

\* lines 77-98: count the pair and call the handler of the snapshot's phase
LoopDispatch ==
    /\ pc = "loop" /\ changes < MaxTurns
    /\ ~get_game_state.game_over
    /\ get_game_state.current_player \in agents
    /\ phase_repeat_count[phase_key(get_game_state)] + 1 <= RepeatThreshold
    /\ game_state' = LoopView(get_game_state)
    /\ agent' = get_game_state.current_player
    /\ Observe(phase_key(get_game_state))
    /\ phase_repeat_count' =
          [phase_repeat_count EXCEPT ![phase_key(get_game_state)] = @ + 1]
    /\ pc' = HandlerEntry(get_game_state.phase)
    /\ invocations' = 0 /\ advances' = 0
    /\ UNCHANGED <<svc, cfgv, turn_counter, ended_by, handler_state,
                   retry_count, current_armies, stale, answerv, changes>>

\* lines 103-108: after the handler, detect the end of the turn
\* (the handler's locals are gone once it has returned)
LoopCheck ==
    /\ pc = "check"
    /\ IF get_game_state.current_player # game_state.current_player
       THEN /\ turn_counter' = turn_counter + 1
            /\ phase_repeat_count' = ZeroCounts
       ELSE UNCHANGED <<turn_counter, phase_repeat_count>>
    /\ pc' = "loop"
    /\ handler_state' = NoHandlerState /\ retry_count' = 0
    /\ current_armies' = 0 /\ stale' = FALSE
    /\ result' = {} /\ calls' = 0 /\ changed' = FALSE
    /\ UNCHANGED <<svc, cfgv, game_state, consecutive, ended_by, agent, invocations,
                   advances, changes>>

\* ------------------------------------------------------------ take_turn
AgentPcs == {"r_agent", "a_agent", "f_agent", "f_agent2", "m_agent"}

\* await agent.take_turn(None): the invocation starts
Ask(p) ==
    /\ pc' = p
    /\ calls' = 0
    /\ result' = {}
    /\ changed' = FALSE
    /\ invocations' = IF noop_only THEN Saturate(invocations, InvocationCap) ELSE 0
    /\ stale' = TRUE

AfterAgent(p) ==
    CASE p = "r_agent" -> "r_classify"
      [] p = "a_agent" -> "a_after"
      [] p = "f_agent" -> "f_fallback"
      [] p = "f_agent2" -> "f_after"
      [] p = "m_agent" -> "m_classify"

CanCall == pc \in AgentPcs /\ ~noop_only /\ calls < MaxToolCalls

\* The markers the handler that awaits the answer looks for
LookedFor(p) ==
    CASE p = "r_agent" -> {"reinforced", "traded", "error"}
      [] p = "a_agent" -> {}
      [] p \in {"f_agent", "f_agent2"} -> {"fortify_text"}
      [] p = "m_agent" -> {"error", "reinforced", "attacked", "fortified"}

Applied(s2, ms) ==
    /\ svc' = s2
    /\ changes' = changes + Changes(svc, s2)
    /\ changed' = (changed \/ s2 # svc)
    /\ result' = result \cup (ms \cap LookedFor(pc))
    /\ calls' = calls + 1
    /\ acted' = (acted \/ s2 # svc)
    /\ UNCHANGED <<constv, pc, loopv, handv, invocations, advances>>

\* a rejected or skipped tool call, or plain text: a marker and no effect
AgentSay ==
    /\ CanCall
    /\ \E ms \in {{}} \cup {{m} : m \in LookedFor(pc)} : Applied(svc, ms)

\* reinforce tool call accepted by the service ("Reinforced ... armies");
\* the service may move on to Attack by itself once the pool is empty
AgentReinforce ==
    /\ CanCall
    /\ svc.phase = "reinforce" /\ svc.current_player = agent
    /\ agent \in svc.owners
    /\ \E n \in 1..svc.pool :
          \E s2 \in {[svc EXCEPT !.pool = svc.pool - n]}
                    \cup (IF n = svc.pool
                          THEN EnterPhase([svc EXCEPT !.pool = 0], "attack")
                          ELSE {}) :
             Applied(s2, {"reinforced"})

\* trade_cards tool call accepted by the service
\* ("Traded cards ... for bonus armies")
AgentTrade ==
    /\ CanCall
    /\ \E i \in 1..Len(combinations3(Len(svc.cards[agent]))) :
          \E s2 \in TradeAccepted(svc, agent, combinations3(Len(svc.cards[agent]))[i]) :
             Applied(s2, {"traded"})

\* attack tool call accepted by the service ("Attacked from ...")
AgentAttack ==
    /\ CanCall
    /\ svc.phase = "attack" /\ svc.current_player = agent /\ svc.can_attack
    /\ \/ \E ca \in BOOLEAN :
             Applied([svc EXCEPT !.can_attack = ca], {"attacked"})
       \/ \E over \in BOOLEAN :
             Applied([svc EXCEPT !.phase = "movearmies", !.can_attack = FALSE,
                                 !.pending_move = TRUE, !.game_over = over],
                     {"attacked"})

\* fortify tool call accepted by the service ("Fortified by moving ...")
AgentFortify ==
    /\ CanCall
    /\ svc.phase = "fortify" /\ svc.current_player = agent /\ svc.can_fortify
    /\ \E cf \in BOOLEAN :
          Applied([svc EXCEPT !.can_fortify = cf], {"fortified"})

\* move_armies tool call accepted by the service ("Moved ... armies")
AgentMove ==
    /\ CanCall
    /\ svc.phase = "movearmies" /\ svc.current_player = agent /\ svc.pending_move
    /\ \E s2 \in EnterPhase(svc, "attack") : Applied(s2, {})

\* take_turn returns its result string
AgentReturn ==
    /\ pc \in AgentPcs
    /\ pc' = AfterAgent(pc)
    /\ UNCHANGED <<svc, cfgv, loopv, handv, answerv, invocations, advances,
                   changes>>

\* An exception leaves the running handler and start_game: no handler
\* catches it (the only try blocks are the forced card trade and
\* _handle_generic_phase), so the handler's locals are gone and the
\* coroutine ends with the exception
Propagate(why) ==
    /\ pc' = "crashed" /\ ended_by' = why
    /\ handler_state' = NoHandlerState /\ retry_count' = 0
    /\ current_armies' = 0 /\ stale' = FALSE
    /\ result' = {} /\ calls' = 0 /\ changed' = FALSE
    /\ UNCHANGED <<svc, cfgv, game_state, turn_counter, phase_repeat_count,
                   consecutive, agent, invocations, advances, changes>>

\* take_turn raises (its own get_game_state calls raise on an HTTP error,
\* the model client may fail): `result = await agent.take_turn(None)`
\* is not inside any try block
AgentRaise ==
    /\ pc \in AgentPcs /\ ~noop_only
    /\ Propagate("agent_exception")

\* take_turn never answers (the model call hangs before any tool call is
\* made): the handlers await it without a timeout (asyncio.wait_for is
\* only used by _handle_generic_phase, which start_game never calls)
AgentHang ==
    /\ pc \in AgentPcs /\ ~noop_only /\ calls = 0 /\ result = {}
    /\ pc' = "blocked"
    /\ UNCHANGED <<svc, cfgv, loopv, handv, answerv, invocations, advances,
                   changes>>

\* the answer string is not read again once it has been classified
ClearAnswer == result' = {} /\ calls' = 0 /\ changed' = FALSE

\* game_state = self.risk_client.get_game_state();
\* my_player = game_state.players.get(agent.name); return if absent
Refetch(found, absent) ==
    /\ handler_state' = HandlerView(get_game_state)
    /\ stale' = FALSE
    /\ pc' = IF agent \in get_game_state.players THEN found ELSE absent

\* ----------------------------------------------- _handle_reinforce_phase
\* lines 114-134: fetch, look the player up, skip if absent or eliminated
ReinforceEnter ==
    /\ pc = "r_enter"
    /\ handler_state' = HandlerView(get_game_state)
    /\ stale' = FALSE
    /\ pc' = IF agent \in get_game_state.players /\ agent \in get_game_state.owners
             THEN "r_trade" ELSE "check"
    /\ UNCHANGED <<svc, cfgv, loopv, agent, retry_count, current_armies,
                   answerv, invocations, advances, changes>>

MustTrade(gs) == Len(gs.cards[agent]) >= 5 /\ CardTrades(gs) # <<>>

\* lines 136-141: forced trade of the first valid set; the boolean that
\* trade_cards returns is dropped
ReinforceTrade ==
    /\ pc = "r_trade"
    /\ MustTrade(handler_state)
    /\ \E trade_action \in {CardTrades(handler_state)[1]} :
          \E s2 \in trade_cards(svc, agent, trade_action) : svc' = s2
    /\ pc' = "r_refetch"
    /\ UNCHANGED <<cfgv, loopv, handv, answerv, invocations, advances, changes>>

\* lines 142-145: a fresh snapshot, the player and the trade list again
ReinforceRefetch ==
    /\ pc = "r_refetch"
    /\ handler_state' = HandlerView(get_game_state)
    /\ pc' = "r_trade"
    /\ UNCHANGED <<svc, cfgv, loopv, agent, retry_count, current_armies, stale,
                   answerv, invocations, advances, changes>>

\* lines 140-148: trade_cards or the get_game_state after it raises; the
\* except clause logs and breaks out of the loop.  The snapshot and the
\* trade list keep the values they had.
ReinforceTradeFails ==
    /\ \/ pc = "r_trade" /\ MustTrade(handler_state)
       \/ pc = "r_refetch"
    /\ pc' = "r_place"
    /\ UNCHANGED <<svc, cfgv, loopv, handv, answerv, invocations, advances,
                   changes>>

\* line 152: the forced-trade loop is over, by its condition or by break
AfterTradeLoop ==
    \/ pc = "r_trade" /\ ~MustTrade(handler_state)
    \/ pc = "r_place"

\* lines 152-167: nothing to place, advance the phase and return
ReinforceNothingToPlace ==
    /\ AfterTradeLoop
    /\ \/ get_reinforcement_armies = 0
       \/ ~valid_reinforce_nonempty(handler_state, agent, get_reinforcement_armies)
    /\ CommandAdvance
    /\ pc' = "check"
    /\ UNCHANGED <<cfgv, loopv, handv, answerv, invocations>>

\* lines 152-171: there are armies to place, enter the retry loop
ReinforceStart ==
    /\ AfterTradeLoop
    /\ get_reinforcement_armies # 0
    /\ valid_reinforce_nonempty(handler_state, agent, get_reinforcement_armies)
    /\ retry_count' = 0
    /\ pc' = "r_loop"
    /\ UNCHANGED <<svc, cfgv, loopv, agent, handler_state, current_armies,
                   stale, answerv, invocations, advances, changes>>

\* lines 173-178: the loop is left when the freshly read pool is 0
\* (retry_count < max_retries always holds here: the budget's exhaustion
\* returns from inside the loop)
ReinforceDone ==
    /\ pc = "r_loop"
    /\ retry_count < ReinforceMaxRetries
    /\ get_reinforcement_armies = 0
    /\ current_armies' = get_reinforcement_armies
    /\ pc' = "check"
    /\ UNCHANGED <<svc, cfgv, loopv, agent, handler_state, retry_count, stale,
                   answerv, invocations, advances, changes>>

\* the retry loop asking the agent whatever the freshly read pool is
ReinforceAsk_PoolIgnored ==
    /\ pc = "r_loop"
    /\ retry_count < ReinforceMaxRetries
    /\ current_armies' = get_reinforcement_armies
    /\ Ask("r_agent")
    /\ UNCHANGED <<svc, cfgv, loopv, agent, handler_state, retry_count,
                   advances, changes>>

\* lines 173-185: armies remain, ask the agent
ReinforceAsk ==
    /\ pc = "r_loop"
    /\ retry_count < ReinforceMaxRetries
    /\ get_reinforcement_armies # 0
    /\ current_armies' = get_reinforcement_armies
    /\ Ask("r_agent")
    /\ UNCHANGED <<svc, cfgv, loopv, agent, handler_state, retry_count,
                   advances, changes>>

\* lines 193-204: action_successful
ReinforceSuccess(res, armies_after, armies_before) ==
    \/ "reinforced" \in res /\ armies_after < armies_before
    \/ "traded" \in res

\* lines 206-211: the answer carries an error marker
ReinforceFailed(res) == "error" \in res

\* lines 222-223: no action was taken and the pool did not change
ReinforceIdle(res, armies_after, armies_before) ==
    /\ ~ReinforceFailed(res)
    /\ ~ReinforceSuccess(res, armies_after, armies_before)
    /\ armies_after = armies_before

\* retry_count after lines 193-232
ReinforceRetryCount(rc, res, armies_after, armies_before) ==
    LET base == IF ReinforceSuccess(res, armies_after, armies_before) THEN 0 ELSE rc
    IN  IF ReinforceFailed(res) \/ ReinforceIdle(res, armies_after, armies_before)
        THEN base + 1 ELSE base

\* lines 189-232: classify the answer, count the retry, maybe force-advance
ReinforceClassify ==
    /\ pc = "r_classify"
    /\ LET armies_after == get_reinforcement_armies
           counted == \/ ReinforceFailed(result)
                      \/ ReinforceIdle(result, armies_after, current_armies)
           rc == ReinforceRetryCount(retry_count, result, armies_after, current_armies)
       IN  /\ retry_count' = rc
           /\ IF counted /\ rc >= ReinforceMaxRetries
              THEN /\ CommandAdvance
                   /\ pc' = "check"
              ELSE /\ pc' = "r_loop"
                   /\ UNCHANGED <<svc, changes, advances>>
    /\ ClearAnswer
    /\ UNCHANGED <<cfgv, loopv, agent, handler_state, current_armies, stale,
                   invocations>>

\* -------------------------------------------------- _handle_attack_phase
\* the attack handler going on although the player's record is absent
AttackEnter_AbsenceIgnored ==
    /\ pc = "a_enter"
    /\ Refetch("a_loop", "a_loop")
    /\ UNCHANGED <<svc, cfgv, loopv, agent, retry_count, current_armies,
                   answerv, invocations, advances, changes>>

\* lines 235-239
AttackEnter ==
    /\ pc = "a_enter"
    /\ Refetch("a_loop", "check")
    /\ UNCHANGED <<svc, cfgv, loopv, agent, retry_count, current_armies,
                   answerv, invocations, advances, changes>>

\* lines 248-255: no valid attack in the handler's snapshot
AttackNoActions ==
    /\ pc = "a_loop"
    /\ ~valid_attacks_nonempty(handler_state)
    /\ CommandAdvance
    /\ pc' = "check"
    /\ UNCHANGED <<cfgv, loopv, handv, answerv, invocations>>

\* lines 248-262: valid attacks exist, ask the agent
AttackAsk ==
    /\ pc = "a_loop"
    /\ valid_attacks_nonempty(handler_state)
    /\ Ask("a_agent")
    /\ UNCHANGED <<svc, cfgv, loopv, agent, handler_state, retry_count,
                   current_armies, advances, changes>>

\* lines 266-271: fresh snapshot after the attack
AttackAfter ==
    /\ pc = "a_after"
    /\ Refetch("a_loop", "check")
    /\ ClearAnswer
    /\ UNCHANGED <<svc, cfgv, loopv, agent, retry_count, current_armies,
                   invocations, advances, changes>>

\* ------------------------------------------------- _handle_fortify_phase
\* lines 274-278
FortifyEnter ==
    /\ pc = "f_enter"
    /\ Refetch("f_loop", "check")
    /\ UNCHANGED <<svc, cfgv, loopv, agent, retry_count, current_armies,
                   answerv, invocations, advances, changes>>

\* the fortify handler returning on an empty set without advancing
FortifyNoActions_NoAdvance ==
    /\ pc = "f_loop"
    /\ ~valid_fortifies_nonempty(handler_state)
    /\ pc' = "check"
    /\ UNCHANGED <<svc, changes, advances, cfgv, loopv, handv, answerv,
                   invocations>>

\* lines 287-294: no valid fortify move in the handler's snapshot
FortifyNoActions ==
    /\ pc = "f_loop"
    /\ ~valid_fortifies_nonempty(handler_state)
    /\ CommandAdvance
    /\ pc' = "check"
    /\ UNCHANGED <<cfgv, loopv, handv, answerv, invocations>>

\* lines 287-301: valid fortify moves exist, ask the agent
FortifyAsk ==
    /\ pc = "f_loop"
    /\ valid_fortifies_nonempty(handler_state)
    /\ Ask("f_agent")
    /\ UNCHANGED <<svc, cfgv, loopv, agent, handler_state, retry_count,
                   current_armies, advances, changes>>

\* lines 305-318: the answer is a text-based function call, ask once more
FortifyReprompt ==
    /\ pc = "f_fallback"
    /\ "fortify_text" \in result
    /\ Ask("f_agent2")
    /\ UNCHANGED <<svc, cfgv, loopv, agent, handler_state, retry_count,
                   current_armies, advances, changes>>

\* lines 320-325: fresh snapshot after the answer (or after the re-asked one)
FortifyAfter ==
    /\ \/ pc = "f_fallback" /\ "fortify_text" \notin result
       \/ pc = "f_after"
    /\ Refetch("f_loop", "check")
    /\ ClearAnswer
    /\ UNCHANGED <<svc, cfgv, loopv, agent, retry_count, current_armies,
                   invocations, advances, changes>>

\* --------------------------------------------- _handle_move_armies_phase
\* lines 328-342
MoveEnter ==
    /\ pc = "m_enter"
    /\ Refetch("m_loop", "check")
    /\ retry_count' = 0
    /\ UNCHANGED <<svc, cfgv, loopv, agent, current_armies, answerv,
                   invocations, advances, changes>>

\* the move handler advancing on an empty set and looping on
MoveNoActions_NoBreak ==
    /\ pc = "m_loop"
    /\ retry_count < MoveMaxRetries
    /\ ~valid_moves_nonempty(handler_state)
    /\ CommandAdvance
    /\ pc' = "m_loop"
    /\ UNCHANGED <<cfgv, loopv, handv, answerv, invocations>>

\* lines 344-351: no valid move in the handler's snapshot
\* (retry_count < max_retries always holds here: the budget's exhaustion
\* breaks out from inside the loop)
MoveNoActions ==
    /\ pc = "m_loop"
    /\ retry_count < MoveMaxRetries
    /\ ~valid_moves_nonempty(handler_state)
    /\ CommandAdvance
    /\ pc' = "check"
    /\ UNCHANGED <<cfgv, loopv, handv, answerv, invocations>>

\* lines 344-358: valid moves exist, ask the agent
MoveAsk ==
    /\ pc = "m_loop"
    /\ retry_count < MoveMaxRetries
    /\ valid_moves_nonempty(handler_state)
    /\ Ask("m_agent")
    /\ UNCHANGED <<svc, cfgv, loopv, agent, handler_state, retry_count,
                   current_armies, advances, changes>>

\* lines 362-369: the failure test of the move-armies handler
MoveFailed(res, gs) ==
    \/ "error" \in res
    \/ "reinforced" \in res /\ gs.phase = "movearmies"
    \/ "attacked" \in res /\ gs.phase = "movearmies"
    \/ "fortified" \in res /\ gs.phase = "movearmies"

\* lines 362-376: a failed answer is counted; the old snapshot is kept
MoveRetry ==
    /\ pc = "m_classify"
    /\ MoveFailed(result, handler_state)
    /\ retry_count' = retry_count + 1
    /\ IF retry_count + 1 >= MoveMaxRetries
       THEN /\ CommandAdvance
            /\ pc' = "check"
       ELSE /\ pc' = "m_loop"
            /\ UNCHANGED <<svc, changes, advances>>
    /\ ClearAnswer
    /\ UNCHANGED <<cfgv, loopv, agent, handler_state, current_armies, stale,
                   invocations>>

\* lines 378-383: any other answer, fresh snapshot and loop
MoveAfter ==
    /\ pc = "m_classify"
    /\ ~MoveFailed(result, handler_state)
    /\ Refetch("m_loop", "check")
    /\ ClearAnswer
    /\ UNCHANGED <<svc, cfgv, loopv, agent, retry_count, current_armies,
                   invocations, advances, changes>>

\* ------------------------------------------------- transport failures
\* The orchestrator's next statement is get_game_state() or
\* get_reinforcement_armies() outside any try block
FetchPending ==
    \/ pc \in {"loop", "check", "r_enter", "a_enter", "f_enter", "m_enter",
               "r_loop", "r_classify", "a_after", "f_after"}
    \/ AfterTradeLoop
    \/ pc = "f_fallback" /\ "fortify_text" \notin result
    \/ pc = "m_classify" /\ ~MoveFailed(result, handler_state)

\* risk_api lines 66-67 and 145-146: response.raise_for_status() raises
\* (or the request itself does) and nothing catches the exception
FetchFails ==
    /\ FetchPending
    /\ Propagate("transport_error")

\* ------------------------------------------------------------------ Next
Next ==
    \/ LoopGameOver \/ LoopNoAgent \/ LoopStallGuard \/ LoopDispatch \/ LoopCheck
    \/ AgentSay \/ AgentReinforce \/ AgentTrade \/ AgentAttack \/ AgentFortify
    \/ AgentMove \/ AgentReturn \/ AgentRaise \/ AgentHang \/ FetchFails
    \/ ReinforceEnter \/ ReinforceTrade \/ ReinforceRefetch
    \/ ReinforceTradeFails
    \/ ReinforceNothingToPlace
    \/ ReinforceStart \/ ReinforceDone \/ ReinforceAsk \/ ReinforceClassify
    \/ AttackEnter \/ AttackNoActions \/ AttackAsk \/ AttackAfter
    \/ FortifyEnter \/ FortifyNoActions \/ FortifyAsk \/ FortifyReprompt
    \/ FortifyAfter
    \/ MoveEnter \/ MoveNoActions \/ MoveAsk \/ MoveRetry \/ MoveAfter

Spec == Init /\ [][Next]_vars

\* The orchestrator is one running thread: whenever it has a next step it
\* takes one.
FairSpec == Spec /\ WF_vars(Next)

\* ------------------------------------------------ rule engine on its own
\* Every variable of the orchestrator keeps its value from before
\* start_game while a rule is called directly
othersv == <<svc, agents, noop_only, pc, game_state, turn_counter,
             phase_repeat_count, agent, handler_state, retry_count,
             current_armies, result, calls, ended_by, game_log, rule_in,
             invocations, advances, changed, stale, changes, acted,
             consecutive, iteration_count, turn_history, game_summary,
             frames, helper>>

RuleInit ==
    /\ \/ rule_in \in ReinforceInputs
       \/ \E o \in Ownerships : rule_in \in AttackInputs(o)
       \/ \E S \in SUBSET Terr4 : rule_in \in FortifyInputs(S)
       \/ \E S \in SUBSET Terr4 : rule_in \in ConnectedInputs(S)
       \/ rule_in \in ValidatorInputs
       \/ rule_in \in TradeInputs
       \/ rule_in \in MoveInputs
    /\ rule_out = NoRuleOutput
    /\ LoopAgentConstructed /\ helper = NoHelper
    /\ svc = [current_player |-> "P1", phase |-> "reinforce", pool |-> 0,
              game_over |-> FALSE, can_attack |-> FALSE,
              can_fortify |-> FALSE, pending_move |-> FALSE,
              players |-> Players, owners |-> Players,
              cards |-> NoHand, refuses |-> {}]
    /\ agents = Players /\ noop_only = FALSE
    /\ pc = "loop"
    /\ game_state = NoLoopState
    /\ turn_counter = 0
    /\ phase_repeat_count = ZeroCounts
    /\ agent = "P1"
    /\ handler_state = NoHandlerState
    /\ retry_count = 0 /\ current_armies = 0
    /\ result = {} /\ calls = 0
    /\ ended_by = "running"
    /\ game_log = <<>>
    /\ acted = FALSE
    /\ invocations = 0 /\ advances = 0
    /\ changed = FALSE /\ stale = FALSE
    /\ changes = 0
    /\ consecutive = TRUE

Returned(fn, r) == [fn |-> fn, raised |-> r.raised, actions |-> r.actions]

\* get_valid_reinforce_actions(game_state, player, risk_client)
ApplyReinforceRule ==
    /\ rule_in.rule = "reinforce" /\ rule_out.fn = "none"
    /\ rule_out' = Returned("reinforce",
                            get_valid_reinforce_actions(GameStateArg(rule_in),
                                                        PlayerArg(rule_in),
                                                        ClientArg(rule_in)))
    /\ UNCHANGED othersv

\* get_valid_attack_actions(game_state, player)
ApplyAttackRule ==
    /\ rule_in.rule = "attack" /\ rule_out.fn = "none"
    /\ rule_out' = Returned("attack",
                            get_valid_attack_actions(GameStateArg(rule_in),
                                                     PlayerArg(rule_in)))
    /\ UNCHANGED othersv

\* get_valid_fortify_actions(game_state, player); the set of connected
\* territories is iterated in one order or in the opposite one
ApplyFortifyRule ==
    /\ rule_in.rule = "fortify" /\ rule_out.fn = "none"
    /\ \E order \in {Sorted(Terr4), Reverse(Sorted(Terr4))} :
          rule_out' = Returned("fortify",
                               get_valid_fortify_actions(GameStateArg(rule_in),
                                                         PlayerArg(rule_in),
                                                         order))
    /\ UNCHANGED othersv

\* _find_connected_territories(game_state, player, start_territory[, set])
ApplyConnected ==
    /\ rule_in.rule = "connected" /\ rule_out.fn = "none"
    /\ rule_out' = Returned("connected",
                            find_connected_territories(GameStateArg(rule_in),
                                                       PlayerArg(rule_in),
                                                       rule_in.start,
                                                       SetArg(rule_in)))
    /\ UNCHANGED othersv

\* _is_valid_card_combination(cards)
ApplyValidator ==
    /\ rule_in.rule = "validator" /\ rule_out.fn = "none"
    /\ rule_out' = Returned("validator",
                            Returns(is_valid_card_combination(rule_in.cards)))
    /\ UNCHANGED othersv

\* get_valid_card_trade_actions(game_state, player)
ApplyTradeRule ==
    /\ rule_in.rule = "trade" /\ rule_out.fn = "none"
    /\ rule_out' = Returned("trade",
                            card_trade_actions(GameStateArg(rule_in),
                                               PlayerArg(rule_in)))
    /\ UNCHANGED othersv

\* get_valid_move_armies_actions(game_state, player)
ApplyMoveRule ==
    /\ rule_in.rule = "move" /\ rule_out.fn = "none"
    /\ rule_out' = Returned("move",
                            get_valid_move_armies_actions(GameStateArg(rule_in),
                                                          PlayerArg(rule_in)))
    /\ UNCHANGED othersv

RuleNext ==
    \/ ApplyReinforceRule \/ ApplyAttackRule \/ ApplyFortifyRule
    \/ ApplyConnected \/ ApplyValidator \/ ApplyTradeRule \/ ApplyMoveRule

RuleSpec == RuleInit /\ [][RuleNext]_vars

TypeOK ==
    /\ pc \in {"loop", "check", "done", "r_enter", "r_trade", "r_refetch",
                "r_place", "r_loop",
               "r_agent", "r_classify", "a_enter", "a_loop", "a_agent",
               "a_after", "f_enter", "f_loop", "f_agent", "f_fallback",
               "f_agent2", "f_after", "m_enter", "m_loop", "m_agent",
               "m_classify", "crashed", "blocked"}
    /\ svc.phase \in Phases /\ svc.current_player \in Players
    /\ retry_count \in 0..ReinforceMaxRetries
    /\ result \subseteq Markers
    /\ iteration_count \in 0..max_iterations
    /\ Len(turn_history) <= MaxHistory
    /\ frames \in [Callers -> [op : {"none", "run_game_loop", "play_single_turn",
                                     "play_single_turn_with_context"},
                               pc : {"idle", "loop", "returned", "raised"},
                               dispatched_on : {"none", "playing"},
                               turn_number : 0..(MaxHistory + 1),
                               status : {"none", "completed", "error",
                                         "max_iterations_reached",
                                         "game_completed", "waiting",
                                         "turn_completed"}]]
    /\ helper.advances \in 0..MaxRetriesArg
    /\ helper.attempt \in 0..MaxRetriesArg

\* ------------------------------------------- workflow_agent/loop_agent.py
\* The loop agent is one object served by one asyncio event loop.  A call
\* gives up control only where it awaits something that suspends, which is
\* asyncio.sleep(1) at the end of an iteration of run_game_loop:
\* check_game_state and dispatch_turn are coroutines without a suspension
\* point.  So one iteration of run_game_loop is one step, and start_game
\* and the two single-turn calls are one step each.

\* every variable of the orchestrator and of the rule engine
orchestratorv == <<svc, agents, noop_only, pc, game_state, turn_counter,
                   phase_repeat_count, agent, handler_state, retry_count,
                   current_armies, result, calls, ended_by, game_log, rule_in,
                   rule_out, invocations, advances, changed, stale, changes,
                   acted, consecutive>>

\* GameStateChecker.check_game_state: what it can report.  PLAYING always
\* comes with a current_player that is truthy (lines 42-47); a failed
\* fetch is reported as ERROR (lines 51-53)
GameStatuses ==
    { [state |-> st, current_player |-> 0] : st \in {"completed", "error", "waiting"} }
    \cup { [state |-> "playing", current_player |-> p] : p \in 1..MaxPlayerId }

\* PlayerTurnDispatcher.dispatch_turn: the ValueError raised for a player
\* without agent URL is caught and reported as success False (lines 66-67,
\* 92-98)
dispatch_turn(player_id) ==
    [success |-> ~(player_id > NumAgentUrls), player_id |-> player_id]

\* RiskLoopAgent._create_turn_context: the turn_number of the context
create_turn_context(history) == Len(history) + 1

\* RiskLoopAgent._update_game_summary: <<game_summary, turn_history>> after
\* the call; turns_completed is assigned before the turn is appended
update_game_summary(summary, history, turn_result) ==
    IF turn_result.player_id # 0
    THEN << [turns_completed |-> Len(history),
             player_strategies |-> summary.player_strategies
                                     \cup {turn_result.player_id}],
            Append(history, turn_result) >>
    ELSE << summary, history >>

\* RiskLoopAgent.start_game: new_game answers True or False (a failed
\* request is reported as False)
LoopAgentStartGame ==
    /\ \E success \in BOOLEAN :
          IF success
          THEN /\ iteration_count' = 0
               /\ turn_history' = <<>>
               /\ game_summary' = [turns_completed |-> 0, player_strategies |-> {}]
          ELSE UNCHANGED <<iteration_count, turn_history, game_summary>>
    /\ UNCHANGED <<orchestratorv, frames, helper>>

\* a caller awaits run_game_loop(); control reaches the while statement
RunGameLoopCall(c) ==
    /\ frames[c].pc \in {"idle", "returned", "raised"}
    /\ frames' = [frames EXCEPT ![c] = [IdleFrame EXCEPT !.op = "run_game_loop",
                                                         !.pc = "loop"]]
    /\ UNCHANGED <<orchestratorv, iteration_count, turn_history, game_summary,
                   helper>>

\* lines 215 and 274-280: the while condition fails
RunGameLoopExhausted(c) ==
    /\ frames[c].pc = "loop"
    /\ ~(iteration_count < max_iterations)
    /\ frames' = [frames EXCEPT ![c].pc = "returned",
                                ![c].dispatched_on = "none",
                                ![c].status = "max_iterations_reached"]
    /\ UNCHANGED <<orchestratorv, iteration_count, turn_history, game_summary,
                   helper>>

\* lines 215-272: one iteration, from the while condition to the sleep
RunGameLoopIteration(c) ==
    /\ frames[c].pc = "loop"
    /\ iteration_count < max_iterations
    /\ iteration_count' = iteration_count + 1
    /\ \E game_status \in GameStatuses :
          CASE game_status.state = "completed" ->
                 /\ frames' = [frames EXCEPT ![c].pc = "returned",
                                             ![c].dispatched_on = "none",
                                             ![c].status = "completed"]
                 /\ UNCHANGED <<turn_history, game_summary>>
            [] game_status.state = "error" ->
                 /\ frames' = [frames EXCEPT ![c].pc = "returned",
                                             ![c].dispatched_on = "none",
                                             ![c].status = "error"]
                 /\ UNCHANGED <<turn_history, game_summary>>
            [] game_status.state = "waiting" ->
                 /\ frames' = [frames EXCEPT ![c].dispatched_on = "none"]
                 /\ UNCHANGED <<turn_history, game_summary>>
            [] game_status.state = "playing" ->
                 LET turn_number == create_turn_context(turn_history)
                     turn_result == dispatch_turn(game_status.current_player)
                     updated == update_game_summary(game_summary, turn_history,
                                                    turn_result)
                 IN  \* line 248: get_game_state raises, nothing catches it
                     \/ /\ frames' = [frames EXCEPT ![c].pc = "raised",
                                                    ![c].dispatched_on = "none",
                                                    ![c].turn_number = turn_number]
                        /\ UNCHANGED <<turn_history, game_summary>>
                     \* lines 255-261: the turn reports failure
                     \/ /\ ~turn_result.success
                        /\ frames' = [frames EXCEPT ![c].pc = "returned",
                                                    ![c].dispatched_on = game_status.state,
                                                    ![c].turn_number = turn_number,
                                                    ![c].status = "error"]
                        /\ UNCHANGED <<turn_history, game_summary>>
                     \* lines 263-267: the turn is recorded, then the sleep
                     \/ /\ turn_result.success
                        /\ Len(turn_history) < MaxHistory
                        /\ frames' = [frames EXCEPT ![c].dispatched_on = game_status.state,
                                                    ![c].turn_number = turn_number]
                        /\ game_summary' = updated[1]
                        /\ turn_history' = updated[2]
    /\ UNCHANGED <<orchestratorv, helper>>

\* RiskLoopAgent.play_single_turn and play_single_turn_with_context: the
\* two differ only in the contextual_prompt copied into the context
PlaySingleTurn(c, op) ==
    /\ frames[c].pc \in {"idle", "returned", "raised"}
    /\ \E game_status \in GameStatuses :
          CASE game_status.state = "completed" ->
                 /\ frames' = [frames EXCEPT ![c] =
                                  [IdleFrame EXCEPT !.op = op, !.pc = "returned",
                                                    !.status = "game_completed"]]
                 /\ UNCHANGED <<turn_history, game_summary>>
            [] game_status.state = "error" ->
                 /\ frames' = [frames EXCEPT ![c] =
                                  [IdleFrame EXCEPT !.op = op, !.pc = "returned",
                                                    !.status = "error"]]
                 /\ UNCHANGED <<turn_history, game_summary>>
            [] game_status.state = "waiting" ->
                 /\ frames' = [frames EXCEPT ![c] =
                                  [IdleFrame EXCEPT !.op = op, !.pc = "returned",
                                                    !.status = "waiting"]]
                 /\ UNCHANGED <<turn_history, game_summary>>
            [] game_status.state = "playing" ->
                 LET turn_number == create_turn_context(turn_history)
                     turn_result == dispatch_turn(game_status.current_player)
                     updated == update_game_summary(game_summary, turn_history,
                                                    turn_result)
                 IN  \* lines 308 and 363: get_game_state raises
                     \/ /\ frames' = [frames EXCEPT ![c] =
                                  [IdleFrame EXCEPT !.op = op, !.pc = "raised",
                                                    !.turn_number = turn_number]]
                        /\ UNCHANGED <<turn_history, game_summary>>
                     \* lines 309-325: the result is recorded as it comes
                     \/ /\ Len(turn_history) < MaxHistory
                        /\ frames' = [frames EXCEPT ![c] =
                                  [IdleFrame EXCEPT !.op = op, !.pc = "returned",
                                                    !.dispatched_on = game_status.state,
                                                    !.turn_number = turn_number,
                                                    !.status = "turn_completed"]]
                        /\ game_summary' = updated[1]
                        /\ turn_history' = updated[2]
    /\ UNCHANGED <<orchestratorv, iteration_count, helper>>

LoopAgentInit ==
    /\ LoopAgentConstructed /\ helper = NoHelper
    /\ svc = [current_player |-> "P1", phase |-> "reinforce", pool |-> 0,
              game_over |-> FALSE, can_attack |-> FALSE,
              can_fortify |-> FALSE, pending_move |-> FALSE,
              players |-> Players, owners |-> Players,
              cards |-> NoHand, refuses |-> {}]
    /\ agents = Players /\ noop_only = FALSE
    /\ pc = "loop"
    /\ game_state = NoLoopState
    /\ turn_counter = 0
    /\ phase_repeat_count = ZeroCounts
    /\ agent = "P1"
    /\ handler_state = NoHandlerState
    /\ retry_count = 0 /\ current_armies = 0
    /\ result = {} /\ calls = 0
    /\ ended_by = "running"
    /\ game_log = <<>>
    /\ rule_in = NoRuleInput /\ rule_out = NoRuleOutput
    /\ acted = FALSE
    /\ invocations = 0 /\ advances = 0
    /\ changed = FALSE /\ stale = FALSE
    /\ changes = 0
    /\ consecutive = TRUE

LoopAgentNext ==
    \/ LoopAgentStartGame
    \/ \E c \in Callers :
          \/ RunGameLoopCall(c)
          \/ RunGameLoopExhausted(c)
          \/ RunGameLoopIteration(c)
          \/ PlaySingleTurn(c, "play_single_turn")
          \/ PlaySingleTurn(c, "play_single_turn_with_context")

LoopAgentSpec == LoopAgentInit /\ [][LoopAgentNext]_vars

\* ------------------------------------- _advance_phase_until_..._changes
\* every variable but svc and helper
nothelperv == <<agents, noop_only, pc, game_state, turn_counter,
                phase_repeat_count, agent, handler_state, retry_count,
                current_armies, result, calls, ended_by, game_log, rule_in,
                rule_out, invocations, advances, changed, stale, changes,
                acted, consecutive, iteration_count, turn_history,
                game_summary, frames>>

\* Fields of helper: fn (which of the two helpers runs), old_phase and
\* old_player (the arguments compared against), max_retries, attempt (the
\* loop variable), pc; and as observations advances (advance_phase
\* commands issued) and changed_at (the number of advances after which a
\* fetched snapshot first met the return condition, 0: none did).

\* line 443 and line 454: the condition under which new_state is returned
Differs(fn, new_state, old_phase, old_player) ==
    IF fn = "phase_changes"
    THEN new_state.phase # old_phase \/ new_state.current_player # old_player
    ELSE new_state.current_player # old_player

\* a caller invokes one of the helpers
HelperCall ==
    /\ helper.pc = "idle"
    /\ \E fn \in {"phase_changes", "player_changes"}, old_phase \in Phases,
          old_player \in Players, max_retries \in 1..MaxRetriesArg :
          helper' = [NoHelper EXCEPT !.fn = fn, !.pc = "advance",
                                     !.old_phase = old_phase,
                                     !.old_player = old_player,
                                     !.max_retries = max_retries]
    /\ UNCHANGED <<svc, nothelperv>>

\* lines 440-441 and 451-452: the next attempt commands advance_phase
HelperAdvance ==
    /\ helper.pc = "advance"
    /\ helper.attempt < helper.max_retries
    /\ \E s2 \in advance_phase(svc) : svc' = s2
    /\ helper' = [helper EXCEPT !.pc = "fetch", !.advances = @ + 1]
    /\ UNCHANGED nothelperv

\* the fetch returning at once whatever the snapshot shows
HelperFetch_ReturnsAtOnce ==
    /\ helper.pc = "fetch"
    /\ helper' = [helper EXCEPT !.pc = "returned"]
    /\ UNCHANGED <<svc, nothelperv>>

\* lines 442-446 and 453-457: fetch, return the snapshot if it differs,
\* else warn, sleep and go round
HelperFetch ==
    /\ helper.pc = "fetch"
    /\ IF Differs(helper.fn, get_game_state, helper.old_phase, helper.old_player)
       THEN helper' = [helper EXCEPT !.pc = "returned",
                                     !.changed_at = helper.advances]
       ELSE helper' = [helper EXCEPT !.pc = "advance", !.attempt = @ + 1]
    /\ UNCHANGED <<svc, nothelperv>>

\* lines 447 and 458: the loop is exhausted, RuntimeError
HelperGivesUp ==
    /\ helper.pc = "advance"
    /\ ~(helper.attempt < helper.max_retries)
    /\ helper' = [helper EXCEPT !.pc = "failed"]
    /\ UNCHANGED <<svc, nothelperv>>

\* risk_api lines 66-67: get_game_state raises and the helper lets the
\* exception through
HelperFetchFails ==
    /\ helper.pc = "fetch"
    /\ helper' = [helper EXCEPT !.pc = "transport_error"]
    /\ UNCHANGED <<svc, nothelperv>>

HelperInit ==
    /\ \E ph \in Phases, p \in Players,
          r \in {{}, {"reinforce"}, {"attack", "movearmies"}, Phases} :
          svc = [current_player |-> p, phase |-> ph, pool |-> 0,
                 game_over |-> FALSE, can_attack |-> FALSE,
                 can_fortify |-> FALSE, pending_move |-> FALSE,
                 players |-> Players, owners |-> Players,
                 cards |-> NoHand, refuses |-> r]
    /\ helper = NoHelper
    /\ LoopAgentConstructed
    /\ agents = Players /\ noop_only = FALSE
    /\ pc = "loop"
    /\ game_state = NoLoopState
    /\ turn_counter = 0
    /\ phase_repeat_count = ZeroCounts
    /\ agent = "P1"
    /\ handler_state = NoHandlerState
    /\ retry_count = 0 /\ current_armies = 0
    /\ result = {} /\ calls = 0
    /\ ended_by = "running"
    /\ game_log = <<>>
    /\ rule_in = NoRuleInput /\ rule_out = NoRuleOutput
    /\ acted = FALSE
    /\ invocations = 0 /\ advances = 0
    /\ changed = FALSE /\ stale = FALSE
    /\ changes = 0
    /\ consecutive = TRUE

HelperNext ==
    \/ HelperCall \/ HelperAdvance \/ HelperFetch \/ HelperGivesUp
    \/ HelperFetchFails

HelperSpec == HelperInit /\ [][HelperNext]_vars

\* ----------------------------------------------------------------- claims
InHandler == pc \notin {"loop", "check", "done", "crashed", "blocked"}

\* C1 (as stated): under an agent that always answers NoOp every invocation
\* of a phase handler eventually returns to the game loop.
C1_HandlerReturns == (noop_only /\ InHandler) ~> ~InHandler

\* C2 (as stated): a NoOp agent is invoked at most budget-many times by one
\* handler invocation, in every phase; the largest budget of any handler
\* is ReinforceMaxRetries.
C2_BudgetBoundsInvocations == noop_only => invocations <= ReinforceMaxRetries

\* C3 (as stated): once the MoveArmies handler's fresh snapshot shows that
\* the move has been made and Attack has resumed, the handler commands no
\* advance_phase and the service stays in Attack.
C3_MoveLeavesAttack ==
    [][(pc = "m_loop" /\ ~stale /\ handler_state.phase = "attack")
          => (advances' = advances /\ svc'.phase = "attack")]_vars

C6_TurnCounterCountsChanges == pc = "loop" => turn_counter = changes

\* C7 (as stated): an answer that neither changed the service's state nor
\* carried any marker (a no-op) increments the handler's retry counter.
C7_NoOpIsCounted ==
    [][(/\ pc \in {"r_classify", "m_classify"} /\ ~changed /\ result = {}
        /\ pc' # "crashed")
          => retry_count' = retry_count + 1]_vars

C10_LegalityOnFreshSnapshot == pc \in {"a_loop", "f_loop", "m_loop"} => ~stale

\* C11 (as stated): an exception raised by a decision-agent invocation
\* never propagates out of the phase handler and start_game.
C11_AgentExceptionContained ==
    ~(pc = "crashed" /\ ended_by = "agent_exception")

\* C12 (as stated): a transport failure while fetching the game state
\* never ends the game loop.
C12_FetchFailureNotFatal ==
    ~(pc = "crashed" /\ ended_by = "transport_error")

\* C13 (as stated): the orchestrator is never left waiting without bound
\* for a decision agent that does not answer.
C13_InvocationNeverBlocks == pc # "blocked"

\* C14: a handler whose freshly fetched snapshot lacks the active player's
\* record returns at once, without asking the agent and without any
\* state-mutating call to the service.
C14_AbsentPlayerSkipped ==
    [][(/\ pc \in {"r_enter", "a_enter", "f_enter", "m_enter"}
        /\ agent \notin svc.players
        /\ pc' # "crashed")
          => (/\ pc' = "check" /\ svc' = svc
              /\ advances' = advances /\ invocations' = invocations)]_vars

\* C14 witness: the Attack handler has returned for a player that is not
\* in the player map, with no advance_phase commanded.
C14_Witness ==
    /\ pc = "check" /\ game_state.phase = "attack"
    /\ agent \notin svc.players
    /\ advances = 0 /\ svc.phase = "attack"

\* A handler is about to act on an empty legal-action set
EmptyLegalSet ==
    \/ /\ AfterTradeLoop
       /\ \/ get_reinforcement_armies = 0
          \/ ~valid_reinforce_nonempty(handler_state, agent,
                                       get_reinforcement_armies)
    \/ pc = "a_loop" /\ ~valid_attacks_nonempty(handler_state)
    \/ pc = "f_loop" /\ ~valid_fortifies_nonempty(handler_state)
    \/ pc = "m_loop" /\ ~valid_moves_nonempty(handler_state)

C16_LogHoldsActions ==
    (pc = "done" /\ acted) => create_game_result(get_game_state).game_log # <<>>

\* The pool the reinforce rule reads: the client's fresh value if it is
\* given a client, else the snapshot's attribute, 0 if it has none
PoolRead(in) ==
    IF in.present THEN in.pool
    ELSE IF in.has_attr THEN in.reinforcement_armies ELSE 0

\* C17: outside Reinforce the reinforce rule returns the empty list.
C17_ReinforceOnlyInReinforce ==
    (rule_out.fn = "reinforce" /\ rule_in.phase # "reinforce")
        => (~rule_out.raised /\ rule_out.actions = <<>>)

\* C17 witness: the rule has been called in Attack with a positive pool
\* and two owned territories.
C17_Witness ==
    /\ rule_out.fn = "reinforce" /\ rule_in.phase = "attack"
    /\ PoolRead(rule_in) > 0 /\ Len(rule_in.territories) = 2

\* C18: with an empty pool the reinforce rule returns the empty list,
\* however many territories the player owns.
C18_EmptyPoolNothingOffered ==
    (rule_out.fn = "reinforce" /\ PoolRead(rule_in) = 0)
        => (~rule_out.raised /\ rule_out.actions = <<>>)

\* C18 witness: the rule has been called in Reinforce with an empty pool
\* for a player that owns three territories.
C18_Witness ==
    /\ rule_out.fn = "reinforce" /\ rule_in.phase = "reinforce"
    /\ PoolRead(rule_in) = 0 /\ Len(rule_in.territories) = 3

\* C19 (as stated): in Reinforce with a pool p > 0 the reinforce rule
\* returns one action per territory of the player's list, in its order,
\* each with max_armies = p.
C19_OneActionPerTerritory ==
    (/\ rule_out.fn = "reinforce" /\ rule_in.phase = "reinforce"
     /\ PoolRead(rule_in) > 0)
        => /\ ~rule_out.raised
           /\ rule_out.actions =
                 [i \in 1..Len(rule_in.territories) |->
                     [territory |-> rule_in.territories[i],
                      max_armies |-> PoolRead(rule_in)]]

\* C20: every action the attack rule returns goes from a territory of the
\* player that is on the map with at least 2 armies to a territory
\* adjacent to it that another player holds and the player does not.
C20_AttacksAreLegal ==
    rule_out.fn = "attack" =>
        \A i \in DOMAIN rule_out.actions :
            LET a == rule_out.actions[i]
            IN  /\ a.from \in Range(rule_in.territories)
                /\ rule_in.armies[a.from] >= 2
                /\ a.from \in DOMAIN rule_in.adjacent
                /\ a.to \in Range(rule_in.adjacent[a.from])
                /\ a.to \in Range(rule_in.others)
                /\ a.to \notin Range(rule_in.territories)

\* C20 witness: attacks are offered while a territory of the player with
\* one army, adjacent to an enemy territory, is not among their sources.
C20_Witness ==
    /\ rule_out.fn = "attack" /\ rule_out.actions # <<>>
    /\ \E t \in Range(rule_in.territories) :
          /\ rule_in.armies[t] = 1
          /\ t \in DOMAIN rule_in.adjacent
          /\ Range(rule_in.adjacent[t]) \cap Range(rule_in.others) # {}
          /\ \A i \in DOMAIN rule_out.actions : rule_out.actions[i].from # t

\* min(a, b)
Min(a, b) == IF a < b THEN a ELSE b

\* C21 (as stated): in Attack, for every territory of the player with
\* n > 1 armies and every territory adjacent to it that another player
\* holds, the attack rule returns an action for the pair with
\* max_dice = min(n - 1, 3).
C21_EveryAttackOffered ==
    (rule_out.fn = "attack" /\ rule_in.phase = "attack")
        => \A s \in Range(rule_in.territories), t \in Range(rule_in.others) :
              (/\ rule_in.armies[s] > 1
               /\ s \in DOMAIN rule_in.adjacent
               /\ t \in Range(rule_in.adjacent[s]))
                 => \E i \in DOMAIN rule_out.actions :
                       rule_out.actions[i] =
                          [from |-> s, to |-> t,
                           max_dice |-> Min(rule_in.armies[s] - 1, 3)]

\* The territories of the set owned that can be reached from start along
\* adjacency edges of the board adj whose nodes all belong to owned
RECURSIVE Reach(_, _, _)
Reach(adj, owned, X) ==
    LET Y == X \cup {t \in owned : \E u \in X \cap DOMAIN adj : t \in Range(adj[u])}
    IN  IF Y = X THEN X ELSE Reach(adj, owned, Y)

OwnedComponent(adj, owned, start) == Reach(adj, owned, {start})

\* Every territory a board names is on it and adjacency goes both ways
SymmetricBoard(adj) ==
    \A t \in DOMAIN adj : \A u \in Range(adj[t]) :
        u \in DOMAIN adj /\ t \in Range(adj[u])

\* The (source, target, cap) triples of a list of fortify actions
FortifyTriples(actions) ==
    {<<actions[i].from, actions[i].to, actions[i].max_armies>> : i \in DOMAIN actions}

\* C22 (as stated): in Fortify the fortify rule returns exactly the pairs
\* (s, t) with s a territory of the player holding more than one army and
\* t # s in s's connected component of the player's territories, each
\* capped at armies(s) - 1.
C22_FortifyExactlyComponent ==
    (rule_out.fn = "fortify" /\ rule_in.phase = "fortify")
        => /\ ~rule_out.raised
           /\ FortifyTriples(rule_out.actions) =
                 {<<s, t, rule_in.armies[s] - 1>> :
                     s \in {x \in Range(rule_in.territories) :
                               rule_in.armies[x] > 1 /\ x \in DOMAIN rule_in.adjacent},
                     t \in Range(rule_in.territories)}
                 \cap {tr \in Terr4 \X Terr4 \X (1..MaxFortifyArmies) :
                         /\ tr[2] # tr[1]
                         /\ tr[2] \in OwnedComponent(rule_in.adjacent,
                                                     Range(rule_in.territories),
                                                     tr[1])}

\* C23 (as stated): whenever the fortify rule returns an action from A to
\* C it also returns one from C to A, capped by C's armies minus one.
C23_FortifySymmetric ==
    rule_out.fn = "fortify" =>
        \A i \in DOMAIN rule_out.actions :
            \E j \in DOMAIN rule_out.actions :
                /\ rule_out.actions[j].from = rule_out.actions[i].to
                /\ rule_out.actions[j].to = rule_out.actions[i].from
                /\ rule_out.actions[j].max_armies
                      <= rule_in.armies[rule_out.actions[i].to] - 1

\* C23 (amended): on a board whose adjacency is symmetric, whenever the
\* fortify rule returns an action from A to C and C holds more than one
\* army, it also returns one from C to A capped at C's armies minus one.
C23_FortifySymmetricFromArmedTarget ==
    (rule_out.fn = "fortify" /\ SymmetricBoard(rule_in.adjacent)) =>
        \A i \in DOMAIN rule_out.actions :
            rule_in.armies[rule_out.actions[i].to] > 1
              => \E j \in DOMAIN rule_out.actions :
                    rule_out.actions[j] =
                       [from |-> rule_out.actions[i].to,
                        to |-> rule_out.actions[i].from,
                        max_armies |-> rule_in.armies[rule_out.actions[i].to] - 1]

\* C23 witness: the rule has returned both A to C and C to A, with
\* different caps, and an action into a one-army territory that has no
\* action back.
C23_Witness ==
    /\ rule_out.fn = "fortify" /\ SymmetricBoard(rule_in.adjacent)
    /\ \E i, j \in DOMAIN rule_out.actions :
          /\ rule_out.actions[i].from = "A" /\ rule_out.actions[i].to = "C"
          /\ rule_out.actions[j].from = "C" /\ rule_out.actions[j].to = "A"
          /\ rule_out.actions[i].max_armies # rule_out.actions[j].max_armies
    /\ \E i \in DOMAIN rule_out.actions :
          rule_in.armies[rule_out.actions[i].to] = 1

\* C30 (as stated): the connectivity search started at a territory of the
\* player returns exactly that territory's connected component of the
\* player's territories.
C30_SearchReturnsComponent ==
    (rule_out.fn = "connected" /\ rule_in.start \in Range(rule_in.territories))
        => /\ ~rule_out.raised
           /\ rule_out.actions = OwnedComponent(rule_in.adjacent,
                                                Range(rule_in.territories),
                                                rule_in.start)

C25_ValidatorIgnoresOrder ==
    (rule_out.fn = "validator" /\ Len(rule_in.cards) = 3) =>
        \A q \in Perms({1, 2, 3}) :
            is_valid_card_combination([i \in 1..3 |-> rule_in.cards[q[i]]])
               = rule_out.actions

\* C25 witness: the validator has accepted a Joker followed by an
\* Infantry and a Cavalry card.
C25_Witness ==
    /\ rule_out.fn = "validator"
    /\ rule_in.cards = <<"Joker", "Infantry", "Cavalry">>
    /\ rule_out.actions = TRUE

\* C26 (as stated): in Reinforce with a hand of at least 3 cards the trade
\* rule returns one action per 3-element index subset of the hand whose
\* kinds are a valid combination, each with its indices in ascending
\* order, none twice and none invalid.
C26_OneTradePerValidSubset ==
    (/\ rule_out.fn = "trade" /\ rule_in.phase = "reinforce"
     /\ Len(rule_in.cards) >= 3)
        => LET c == rule_in.cards
               idx == 0..(Len(c) - 1)
               valid == {t \in idx \X idx \X idx :
                           /\ t[1] < t[2] /\ t[2] < t[3]
                           /\ is_valid_card_combination(
                                 <<c[t[1] + 1], c[t[2] + 1], c[t[3] + 1]>>)}
           IN  /\ ~rule_out.raised
               /\ {rule_out.actions[i].card_indices : i \in DOMAIN rule_out.actions}
                     = valid
               /\ Len(rule_out.actions) = Cardinality(valid)

\* C27 (as stated): the attack, fortify and move-armies rules return the
\* empty list outside their own phase, and the trade rule returns the
\* empty list outside Reinforce and for a hand of fewer than 3 cards.
C27_RulesGatedByPhase ==
    LET Empty == ~rule_out.raised /\ rule_out.actions = <<>>
    IN  /\ (rule_out.fn = "attack" /\ rule_in.phase # "attack") => Empty
        /\ (rule_out.fn = "fortify" /\ rule_in.phase # "fortify") => Empty
        /\ (rule_out.fn = "move" /\ rule_in.phase # "movearmies") => Empty
        /\ (/\ rule_out.fn = "trade"
            /\ (rule_in.phase # "reinforce" \/ Len(rule_in.cards) < 3)) => Empty

\* C28: in MoveArmies the move-armies rule returns, in the same order, one
\* action per MoveArmies entry of possible_actions with from, to,
\* min_armies and max_armies unchanged, and nothing for any other entry.
C28_MovePassesHintsThrough ==
    (/\ rule_out.fn = "move" /\ rule_in.phase = "movearmies"
     /\ rule_in.has_possible_actions)
        => LET pa == rule_in.possible_actions
               at == {i \in DOMAIN pa : pa[i].kind = "MoveArmies"}
               Nth(k) == CHOOSE i \in at : Cardinality({j \in at : j <= i}) = k
           IN  /\ ~rule_out.raised
               /\ Len(rule_out.actions) = Cardinality(at)
               /\ \A k \in DOMAIN rule_out.actions :
                     rule_out.actions[k] =
                        [from |-> pa[Nth(k)].from, to |-> pa[Nth(k)].to,
                         min_armies |-> pa[Nth(k)].min_armies,
                         max_armies |-> pa[Nth(k)].max_armies]

\* C28 witness: the rule was given an EndPhase entry followed by a
\* MoveArmies entry whose bounds differ and has returned one action.
C28_Witness ==
    /\ rule_out.fn = "move" /\ rule_in.phase = "movearmies"
    /\ rule_in.has_possible_actions
    /\ Len(rule_in.possible_actions) = 2
    /\ rule_in.possible_actions[1].kind = "EndPhase"
    /\ rule_in.possible_actions[2].kind = "MoveArmies"
    /\ rule_in.possible_actions[2].min_armies < rule_in.possible_actions[2].max_armies
    /\ Len(rule_out.actions) = 1

ConnectedFrom(start) ==
    find_connected_territories(GameStateArg(rule_in), PlayerArg(rule_in), start,
                               [given |-> TRUE,
                                set |-> Range(rule_in.territories)]).actions

\* A's result holds C => C's result holds A
SearchSymmetric ==
    \A a, c \in Range(rule_in.territories) :
        c \in ConnectedFrom(a) => a \in ConnectedFrom(c)

\* A's result holds B and B's holds C => A's result holds C
SearchTransitive ==
    \A a, b, c \in Range(rule_in.territories) :
        (b \in ConnectedFrom(a) /\ c \in ConnectedFrom(b)) => c \in ConnectedFrom(a)

\* C31 (as stated): over the player's territories, being in the result of
\* the search is symmetric and transitive whatever the adjacency data.
C31_SearchSymmetricTransitive ==
    rule_out.fn = "connected" => (SearchSymmetric /\ SearchTransitive)

\* C31 (amended): being in the result of the search is transitive
\* whatever the adjacency data, and symmetric when the adjacency data is
\* symmetric.
C31_SearchTransitiveSymmetricOnSymmetricBoard ==
    rule_out.fn = "connected"
        => /\ SearchTransitive
           /\ SymmetricBoard(rule_in.adjacent) => SearchSymmetric

\* C31 witness: on a symmetric board the search from an owned start has
\* returned three or more of the player's territories.
C31_Witness ==
    /\ rule_out.fn = "connected" /\ ~rule_out.raised
    /\ SymmetricBoard(rule_in.adjacent)
    /\ rule_in.start \in Range(rule_in.territories)
    /\ Cardinality(rule_out.actions) >= 3

\* The number of adjacency entries of a board
RECURSIVE Entries(_, _)
Entries(adj, names) ==
    IF names = {} THEN 0
    ELSE LET t == CHOOSE x \in names : TRUE
         IN  Len(adj[t]) + Entries(adj, names \ {t})

\* C32: the search ends after at most one pop of the queue for the start
\* and one per adjacency entry of the map, adds each territory to the
\* visited set at most once, and returns the territories it added.
C32_SearchTerminates ==
    (rule_out.fn = "connected" /\ ~rule_out.raised)
        => LET trace == SearchTrace(GameStateArg(rule_in),
                                    Range(rule_in.territories),
                                    <<rule_in.start>>, {})
               added == {i \in DOMAIN trace : trace[i].expanded}
           IN  /\ Len(trace) <= 1 + Entries(rule_in.adjacent, DOMAIN rule_in.adjacent)
               /\ \A i, j \in added : trace[i].current = trace[j].current => i = j
               /\ {trace[i].current : i \in added} = rule_out.actions

\* C32 witness: the search has returned all four territories of the ring,
\* where two edges lead to the territory opposite the start.
C32_Witness ==
    /\ rule_out.fn = "connected" /\ ~rule_out.raised
    /\ rule_in.adjacent = [A |-> <<"D", "B">>, B |-> <<"C", "A">>,
                           C |-> <<"B", "D">>, D |-> <<"A", "C">>]
    /\ rule_out.actions = Terr4

C35_OneAdvancePerIteration == advances <= 1

\* C35 witness: the Move Armies handler asked the agent, counted failed
\* answers up to its budget, commanded its one advance_phase and returned.
C35_Witness ==
    /\ pc = "check" /\ game_state.phase = "movearmies"
    /\ retry_count = MoveMaxRetries /\ advances = 1

\* C36 (as stated): the iteration counter never exceeds max_iterations,
\* every run_game_loop call that is over has returned one of the statuses
\* completed, error and max_iterations_reached, and the counter goes back
\* to zero only in a successful start_game.
C36_LoopBounded ==
    /\ [](iteration_count <= max_iterations)
    /\ [](\A c \in Callers :
             (frames[c].op = "run_game_loop" /\ frames[c].pc # "loop")
                => /\ frames[c].pc = "returned"
                   /\ frames[c].status \in {"completed", "error",
                                            "max_iterations_reached"})
    /\ [][(iteration_count # 0 /\ iteration_count' = 0)
             => (turn_history' = <<>> /\ game_summary'.turns_completed = 0
                 /\ frames' = frames)]_vars

\* C37 (as stated): whenever a turn has been recorded, turns_completed is
\* the number of entries of turn_history, and the context of the turn was
\* given that number as its turn_number.
C37_TurnsCompletedCountsHistory ==
    [][Len(turn_history') > Len(turn_history)
          => /\ game_summary'.turns_completed = Len(turn_history')
             /\ \E c \in Callers : /\ frames'[c].dispatched_on # "none"
                                   /\ frames'[c].turn_number = Len(turn_history')]_vars

\* C38 (as stated): no turn that reported failure is in turn_history or in
\* game_summary, and a call that dispatched a turn had seen the game
\* playing.
C38_FailedTurnNotRecorded ==
    /\ \A i \in DOMAIN turn_history : turn_history[i].success
    /\ \A p \in game_summary.player_strategies : dispatch_turn(p).success
    /\ \A c \in Callers : frames[c].dispatched_on \notin {"completed", "error"}

\* C39: _advance_phase_until_phase_changes never commands more than
\* max_retries advances; when it returns it has commanded at least one,
\* the snapshot fetched after the last one was the first to differ from
\* the old phase or player, and every earlier attempt was counted; when
\* it gives up it has commanded exactly max_retries advances and no
\* fetched snapshot differed.
C39_AdvanceUntilChanged ==
    helper.fn = "phase_changes"
        => /\ helper.advances <= helper.max_retries
           /\ helper.pc = "returned"
                 => /\ helper.advances >= 1
                    /\ helper.changed_at = helper.advances
                    /\ helper.advances = helper.attempt + 1
                    /\ Differs(helper.fn, svc, helper.old_phase, helper.old_player)
           /\ helper.pc = "failed"
                 => /\ helper.advances = helper.max_retries
                    /\ helper.changed_at = 0
                    /\ ~Differs(helper.fn, svc, helper.old_phase, helper.old_player)

\* C39 witness: called with the default max_retries on a service that
\* refuses to advance, the helper has given up after five advances.
C39_Witness ==
    /\ helper.fn = "phase_changes" /\ helper.pc = "failed"
    /\ helper.max_retries = DefaultMaxRetries
    /\ helper.advances = DefaultMaxRetries

====
